---------------------------- MODULE Spec2Model ----------------------------
(* A model of dhcpd-api: the nom parsers of the lease database and of the  *)
(* host configuration, the MAC address types, and the vendor table with    *)
(* its longest-prefix lookup.  Texts are sequences of one-character        *)
(* strings; decoded string values are sequences of character codes.        *)
EXTENDS Integers, Sequences, FiniteSets, TLC

(***************************************************************************)
(* Bounds of the explored inputs.                                          *)
(***************************************************************************)
\* odd (malformed) groups a composed MAC text may hold
MaxOdd == 1
\* elements of a vendor document
MaxElements == 2
\* lease or host blocks of a written file
MaxBlocks == 2
\* fields of a written file, over all its blocks
MaxFields == 3
\* characters a reader may miss at the end of a file that is being written
MaxCut == 2
\* fields of one host block
MaxBlockFields == 2
\* characters of a text of whitespace and comments
MaxText == 4
\* times at which a file is rewritten
MaxTime == 1
\* ticks of the watcher's interval
MaxChecks == 1
\* fields of a host block that repeats its fields
MaxRepeated == 4
\* pieces of text between the opening and the end of a block
MaxPieces == 4

(***************************************************************************)
(* Program constants.                                                      *)
(***************************************************************************)
\* [0u8; 6]: the bytes of a MacAddr
MacLen == 6
\* nibs.len() > 12
MaxNibbles == 12
\* u8::MAX, the range of parse::<u8>() and u8::from_str_radix
U8Max == 255
\* i32::MAX, the range of parse::<i32>()
I32Max == 2147483647

(***************************************************************************)
(* Characters: ASCII 32..126 without the grave accent (96), which a        *)
(* string of this notation cannot hold, and newline, tab, return.          *)
(***************************************************************************)
Printable ==
  <<" ","!","\"","#","$","%","&","'","(",")","*","+",",","-",".","/",
    "0","1","2","3","4","5","6","7","8","9",":",";","<","=",">","?",
    "@","A","B","C","D","E","F","G","H","I","J","K","L","M","N","O",
    "P","Q","R","S","T","U","V","W","X","Y","Z","[","\\","]","^","_",
    "a","b","c","d","e","f","g","h","i","j","k","l","m","n","o",
    "p","q","r","s","t","u","v","w","x","y","z","{","|","}","~">>

Chars == {Printable[i] : i \in 1..Len(Printable)} \cup {"\n", "\t", "\r"}

\* the code point of a character
CodeOf ==
  [c \in Chars |->
     IF c = "\n" THEN 10
     ELSE IF c = "\t" THEN 9
     ELSE IF c = "\r" THEN 13
     ELSE LET i == CHOOSE j \in 1..Len(Printable) : Printable[j] = c
          IN IF i < 65 THEN 31 + i ELSE 32 + i]

Codes(s) == [i \in 1..Len(s) |-> CodeOf[s[i]]]

DecDigits == <<"0","1","2","3","4","5","6","7","8","9">>
LowerHex == <<"0","1","2","3","4","5","6","7","8","9","a","b","c","d","e","f">>
UpperHex == <<"0","1","2","3","4","5","6","7","8","9","A","B","C","D","E","F">>

Digit == {DecDigits[i] : i \in 1..10}
OctDigit == {DecDigits[i] : i \in 1..8}
Alpha == {Printable[i] : i \in 34..59} \cup {Printable[i] : i \in 65..90}

\* char::to_digit(radix): the value of a digit, -1 when it is none
ToDigit(c, radix) ==
  LET v == IF \E i \in 1..16 : LowerHex[i] = c
             THEN (CHOOSE i \in 1..16 : LowerHex[i] = c) - 1
           ELSE IF \E i \in 1..16 : UpperHex[i] = c
             THEN (CHOOSE i \in 1..16 : UpperHex[i] = c) - 1
           ELSE -1
  IN IF v < radix THEN v ELSE -1

\* "some value" / "no value"
Some(v) == [some |-> TRUE, v |-> v]
None == [some |-> FALSE]

RECURSIVE Concat(_)
Concat(ss) == IF ss = <<>> THEN <<>> ELSE Head(ss) \o Concat(Tail(ss))

RECURSIVE Join(_, _)
Join(ss, sep) ==
  IF ss = <<>> THEN <<>>
  ELSE IF Len(ss) = 1 THEN Head(ss)
  ELSE Head(ss) \o sep \o Join(Tail(ss), sep)

(***************************************************************************)
(* Integer conversions of the standard library, with their widths.         *)
(***************************************************************************)
\* the digits' value in the radix; -1 when a character is no digit of the
\* radix, -2 when the value exceeds max
RECURSIVE Accumulate(_, _, _, _)
Accumulate(digits, radix, max, acc) ==
  IF digits = <<>> THEN acc
  ELSE LET d == ToDigit(Head(digits), radix)
       IN IF d < 0 THEN -1
          ELSE IF acc > (max - d) \div radix THEN -2
          ELSE Accumulate(Tail(digits), radix, max, acc * radix + d)

\* uN::from_str_radix and str::parse::<uN>, iN for a text without '-': an
\* optional leading '+', then digits of the radix; Err on an empty string,
\* a lone sign, a character that is no digit, or a value above max
FromStrRadix(src, radix, max) ==
  IF src = <<>> THEN None
  ELSE IF Len(src) = 1 /\ src[1] \in {"+", "-"} THEN None
  ELSE LET digits == IF src[1] = "+" THEN Tail(src) ELSE src
           n == Accumulate(digits, radix, max, 0)
       IN IF n < 0 THEN None ELSE Some(n)

\* the decimal digits of a number ({} of an integer)
RECURSIVE Dec(_)
Dec(n) == IF n < 10 THEN <<DecDigits[n + 1]>>
          ELSE Dec(n \div 10) \o <<DecDigits[(n % 10) + 1]>>

\* Result::unwrap_or_default / Option::unwrap_or_default
UnwrapOr(o, default) == IF o.some THEN o.v ELSE default

(***************************************************************************)
(* nom.  A parser is a value: a record whose field n names the combinator  *)
(* and whose other fields are its arguments.  parse applies a parser to    *)
(* the text s from position i and returns Ok with the position after what  *)
(* it consumed and a value, Error (recoverable: alt tries the next         *)
(* branch, many0 and many1 stop, opt gives None), or Incomplete (a         *)
(* streaming parser met the end of the input).                             *)
(***************************************************************************)
Ok(p, v) == [k |-> "Ok", p |-> p, v |-> v]
Error(p) == [k |-> "Error", p |-> p]
Incomplete(p) == [k |-> "Incomplete", p |-> p]

AtEnd(s, i) == i > Len(s)

\* bytes::complete::tag
tag(t) == [n |-> "tag", t |-> t]
\* character::complete::char
char(c) == [n |-> "char", c |-> c]
\* character::complete::one_of
one_of(set) == [n |-> "one_of", set |-> set]
\* character::streaming::one_of
streaming_one_of(set) == [n |-> "streaming_one_of", set |-> set]
\* bytes::complete::take_while
take_while(set) == [n |-> "take_while", set |-> set]
\* bytes::complete::take_while1
take_while1(set) == [n |-> "take_while1", set |-> set]
\* bytes::streaming::take_while1
streaming_take_while1(set) == [n |-> "streaming_take_while1", set |-> set]
\* combinator::eof
eof == [n |-> "eof"]
\* branch::alt
alt(gs) == [n |-> "alt", gs |-> gs]
\* multi::many0, multi::many1, multi::count
many0(g) == [n |-> "many0", g |-> g]
many1(g) == [n |-> "many1", g |-> g]
count(g, c) == [n |-> "tuple", gs |-> [j \in 1..c |-> g]]
\* combinator::opt, combinator::all_consuming, combinator::map_res
opt(g) == [n |-> "opt", g |-> g]
all_consuming(g) == [n |-> "all_consuming", g |-> g]
map_res(g, f) == [n |-> "map_res", g |-> g, f |-> f]
\* sequence::tuple, sequence::preceded, sequence::terminated
tuple(gs) == [n |-> "tuple", gs |-> gs]
preceded(a, b) == [n |-> "nth", gs |-> <<a, b>>, nth |-> 2]
terminated(a, b) == [n |-> "nth", gs |-> <<a, b>>, nth |-> 1]

\* character::complete::digit1, space0, space1, newline
digit1 == take_while1(Digit)
space0 == take_while({" ", "\t"})
space1 == take_while1({" ", "\t"})
newline == char("\n")

\* a function of the program that is a parser: its steps
\*   let (input, x) = step(input)?;
\* in their order, then Ok((input, value)), the value being the one that
\* the function named f makes of the steps' values
Fn(steps, f) == [n |-> "fn", gs |-> steps, f |-> f]
\* the same, of a function that ends with Err(nom::Err::Error(..)) when f
\* makes no value
FnRes(steps, f) == [n |-> "fn_res", gs |-> steps, f |-> f]

\* the end of the longest run of characters of set from i
RECURSIVE RunEnd(_, _, _)
RunEnd(set, s, i) ==
  IF ~AtEnd(s, i) /\ s[i] \in set THEN RunEnd(set, s, i + 1) ELSE i

(***************************************************************************)
(* dhcp_parsers/mod.rs: the value parsers.                                 *)
(***************************************************************************)
str_octal_escape ==
  Fn(<<char("\\"), count(one_of(OctDigit), 3)>>, "str_octal_escape")

str_char_escape ==
  Fn(<<char("\\"),
       one_of({"a", "b", "t", "n", "v", "f", "r", "e", "\\", "\""})>>,
     "str_char_escape")

\* the character a two-character escape stands for
EscapeCode(c) ==
  CASE c = "a" -> 7
    [] c = "b" -> 8
    [] c = "t" -> 9
    [] c = "n" -> 10
    [] c = "v" -> 11
    [] c = "f" -> 12
    [] c = "r" -> 13
    [] c = "e" -> 27
    [] c = "\\" -> 92
    [] c = "\"" -> 34

str_literal == Fn(<<take_while1(Chars \ {"\\", "\""})>>, "str_literal")

val_string ==
  Fn(<<char("\""),
       many1(alt(<<str_octal_escape, str_char_escape, str_literal>>)),
       char("\"")>>,
     "val_string")

\* static HEX
HEX == {LowerHex[i] : i \in 1..16}

val_hexbyte == FnRes(<<count(streaming_one_of(HEX), 2)>>, "val_hexbyte")

val_macaddr ==
  Fn(<<val_hexbyte, char(":"), val_hexbyte, char(":"), val_hexbyte, char(":"),
       val_hexbyte, char(":"), val_hexbyte, char(":"), val_hexbyte>>,
     "val_macaddr")

keyword_hardware_ethernet ==
  Fn(<<tag(<<"h","a","r","d","w","a","r","e">>), space1, tag(<<"e","t","h","e","r","n","e","t">>), space1, val_macaddr>>,
     "keyword_hardware_ethernet")

val_address ==
  Fn(<<digit1, char("."), digit1, char("."), digit1, char("."), digit1>>,
     "val_address")

\* comment without the alternative of the end of the input: the comment
\* has to end with a newline
comment_to_newline ==
  Fn(<<char("#"), take_while(Chars \ {"\n"}), map_res(newline, "ok_empty")>>,
     "empty")

comment ==
  Fn(<<char("#"), take_while(Chars \ {"\n"}),
       alt(<<map_res(newline, "ok_empty"), map_res(eof, "ok_empty")>>)>>,
     "empty")

anyspace == Fn(<<one_of({" ", "\t", "\r", "\n"})>>, "empty")

anyspace0 == Fn(<<many0(alt(<<anyspace, comment>>))>>, "empty")

anyspace1 == Fn(<<many1(alt(<<anyspace, comment>>))>>, "empty")

\* a.parse::<u8>().unwrap_or_default()
ParseU8OrDefault(digits) == UnwrapOr(FromStrRadix(digits, 10, U8Max), 0)

\* what the functions of dhcp_parsers/mod.rs return of their steps' values
mod_value(f, v) ==
  CASE f = "empty" -> <<>>
    [] f = "ok_empty" -> Some(<<>>)
    [] f = "str_octal_escape" -> <<UnwrapOr(FromStrRadix(v[2], 8, U8Max), 0)>>
    [] f = "str_char_escape" -> <<EscapeCode(v[2])>>
    [] f = "str_literal" -> Codes(v[1])
    [] f = "val_string" -> Concat(v[2])
    [] f = "val_hexbyte" -> FromStrRadix(v[1], 16, U8Max)
    [] f = "val_macaddr" -> <<v[1], v[3], v[5], v[7], v[9], v[11]>>
    [] f = "keyword_hardware_ethernet" -> v[5]
    [] f = "val_address" ->
         <<ParseU8OrDefault(v[1]), ParseU8OrDefault(v[3]),
           ParseU8OrDefault(v[5]), ParseU8OrDefault(v[7])>>

(***************************************************************************)
(* macaddr.rs                                                              *)
(***************************************************************************)
\* str::split(':'): the pieces between the colons, at least one
RECURSIVE Split(_, _, _)
Split(s, sep, cur) ==
  IF s = <<>> THEN <<cur>>
  ELSE IF Head(s) = sep THEN <<cur>> \o Split(Tail(s), sep, <<>>)
  ELSE Split(Tail(s), sep, Append(cur, Head(s)))

RECURSIVE MacAddr_from_str_loop(_, _, _)
MacAddr_from_str_loop(groups, i, bytes) ==
  IF i > Len(groups)
    THEN IF Len(bytes) # MacLen THEN [ok |-> FALSE, err |-> "Short"]
         ELSE [ok |-> TRUE, v |-> bytes]
  ELSE IF i - 1 >= MacLen THEN [ok |-> FALSE, err |-> "Long"]
  ELSE IF Len(groups[i]) # 2 THEN [ok |-> FALSE, err |-> "BadSegment"]
  ELSE LET b == FromStrRadix(groups[i], 16, U8Max)
       IN IF ~b.some THEN [ok |-> FALSE, err |-> "Parse"]
          ELSE MacAddr_from_str_loop(groups, i + 1, Append(bytes, b.v))

\* impl FromStr for MacAddr
MacAddr_from_str(s) == MacAddr_from_str_loop(Split(s, ":", <<>>), 1, <<>>)

\* {:x}: no padding to two digits
Hex_unpadded(b) ==
  IF b < 16 THEN <<LowerHex[b + 1]>>
  ELSE <<LowerHex[(b \div 16) + 1], LowerHex[(b % 16) + 1]>>

\* {:02x}
Hex02(b) == <<LowerHex[(b \div 16) + 1], LowerHex[(b % 16) + 1]>>

\* impl fmt::Display for MacAddr
MacAddr_Display(mac) == Join([i \in 1..Len(mac) |-> Hex02(mac[i])], <<":">>)

\* Nibblet::from_byte_vec: two nibbles a byte, the high one first
RECURSIVE from_byte_vec(_)
from_byte_vec(bytes) ==
  IF bytes = <<>> THEN <<>>
  ELSE <<Head(bytes) \div 16, Head(bytes) % 16>> \o from_byte_vec(Tail(bytes))

\* impl From<&MacAddr> for MacPrefix
MacPrefix_from_mac(mac) == from_byte_vec(mac)

\* the nibble of one character of a prefix group, -1 for BadChar
PrefixNibble(c) ==
  IF c \in Digit \/ c \in {"a", "b", "c", "d", "e", "f"}
       \/ c \in {"A", "B", "C", "D", "E", "F"}
    THEN ToDigit(c, 16) ELSE -1

RECURSIVE MacPrefix_from_str_loop(_, _, _)
MacPrefix_from_str_loop(groups, i, nibs) ==
  IF i > Len(groups)
    THEN IF Len(nibs) > MaxNibbles THEN [ok |-> FALSE, err |-> "Long"]
         ELSE [ok |-> TRUE, v |-> nibs]
  ELSE IF Len(groups[i]) > 2 THEN [ok |-> FALSE, err |-> "LongSegment"]
  ELSE LET g == groups[i]
           n == [j \in 1..Len(g) |-> PrefixNibble(g[j])]
       IN IF \E j \in 1..Len(g) : n[j] < 0
            THEN [ok |-> FALSE, err |-> "BadChar"]
            ELSE MacPrefix_from_str_loop(groups, i + 1, nibs \o n)

\* impl FromStr for MacPrefix
MacPrefix_from_str(s) == MacPrefix_from_str_loop(Split(s, ":", <<>>), 1, <<>>)

(***************************************************************************)
(* chrono, as dhcp_parsers/leases.rs uses it.                              *)
(***************************************************************************)
IsLeapYear(y) == (y % 4 = 0 /\ y % 100 # 0) \/ y % 400 = 0

DaysInMonth(y, m) ==
  IF m = 2 THEN (IF IsLeapYear(y) THEN 29 ELSE 28)
  ELSE IF m \in {4, 6, 9, 11} THEN 30 ELSE 31

\* NaiveDate::from_ymd_opt(y, m, d).unwrap_or_default(): the date when it
\* is one of the calendar (and its year one chrono can hold), 1970-01-01
\* otherwise
from_ymd_or_default(y, m, d) ==
  IF y <= 262142 /\ m >= 1 /\ m <= 12 /\ d >= 1 /\ d <= DaysInMonth(y, m)
    THEN [year |-> y, month |-> m, day |-> d]
    ELSE [year |-> 1970, month |-> 1, day |-> 1]

\* NaiveTime::from_hms_opt(h, m, s).unwrap_or_default()
from_hms_or_default(h, m, s) ==
  IF h < 24 /\ m < 60 /\ s < 60
    THEN [hour |-> h, minute |-> m, second |-> s]
    ELSE [hour |-> 0, minute |-> 0, second |-> 0]

RECURSIVE StripZeros(_)
StripZeros(digits) ==
  IF Len(digits) > 1 /\ Head(digits) = "0" THEN StripZeros(Tail(digits))
  ELSE digits

\* digits <= bound, for two texts of decimal digits of one length
RECURSIVE DecimalLeq(_, _)
DecimalLeq(digits, bound) ==
  IF digits = <<>> THEN TRUE
  ELSE LET a == ToDigit(Head(digits), 10)
           b == ToDigit(Head(bound), 10)
       IN IF a < b THEN TRUE
          ELSE IF a > b THEN FALSE
          ELSE DecimalLeq(Tail(digits), Tail(bound))

\* digits.parse::<i32>().unwrap_or_default(), for a text of digits
ParseI32OrDefault(digits) == UnwrapOr(FromStrRadix(digits, 10, I32Max), 0)

\* digits.parse::<u32>().unwrap_or_default(), for a text of digits.  A
\* value above i32::MAX that a u32 holds is given as i32::MAX: it is, like
\* every value above 59, no month, day, hour, minute or second.
ParseU32OrDefault(digits) ==
  LET d == StripZeros(digits)
      n == FromStrRadix(d, 10, I32Max)
  IN IF n.some THEN n.v
     ELSE IF Len(d) = 10 /\ DecimalLeq(d, <<"4","2","9","4","9","6","7","2","9","5">>) THEN I32Max
     ELSE 0

(***************************************************************************)
(* dhcp_parsers/leases.rs: the parsers.                                    *)
(***************************************************************************)
val_date == Fn(<<digit1, char("/"), digit1, char("/"), digit1>>, "val_date")

val_time == Fn(<<digit1, char(":"), digit1, char(":"), digit1>>, "val_time")

val_never == Fn(<<tag(<<"n","e","v","e","r">>)>>, "val_never")

val_datetime ==
  Fn(<<one_of(OctDigit), space0, val_date, space0, val_time>>, "val_datetime")

val_datetime_or_never == alt(<<val_datetime, val_never>>)

field_starts ==
  Fn(<<tag(<<"s","t","a","r","t","s">>), space0, val_datetime_or_never>>, "field_starts")

field_ends ==
  Fn(<<tag(<<"e","n","d","s">>), space0, val_datetime_or_never>>, "field_ends")

field_tstp ==
  Fn(<<tag(<<"t","s","t","p">>), space0, val_datetime_or_never>>, "field_tstp")

field_cltt ==
  Fn(<<tag(<<"c","l","t","t">>), space0, val_datetime_or_never>>, "field_cltt")

field_hardware_ethernet ==
  Fn(<<keyword_hardware_ethernet>>, "field_hardware_ethernet")

field_uid == Fn(<<tag(<<"u","i","d">>), space0, val_string>>, "field_uid")

field_client_hostname ==
  Fn(<<tag(<<"c","l","i","e","n","t","-","h","o","s","t","n","a","m","e">>), space0, val_string>>,
     "field_client_hostname")

field_vendor_class_identifier ==
  Fn(<<tag(<<"s","e","t">>), space0, tag(<<"v","e","n","d","o","r","-","c","l","a","s","s","-","i","d","e","n","t","i","f","i","e","r">>), space0,
       char("="), anyspace0, val_string>>,
     "field_vendor_class_identifier")

binding_state ==
  Fn(<<opt(terminated(alt(<<tag(<<"n","e","x","t">>), tag(<<"r","e","w","i","n","d">>)>>), space1)),
       tag(<<"b","i","n","d","i","n","g">>), space0, tag(<<"s","t","a","t","e">>), space0,
       alt(<<tag(<<"a","c","t","i","v","e">>), tag(<<"f","r","e","e">>), tag(<<"a","b","a","n","d","o","n","e","d">>),
             tag(<<"b","a","c","k","u","p">>), tag(<<"e","x","p","i","r","e","d">>), tag(<<"r","e","l","e","a","s","e","d">>),
             tag(<<"r","e","s","e","t">>), tag(<<"r","e","s","e","t">>)>>)>>,
     "binding_state")

\* lease_field with one more alternative, which takes a field of any other
\* keyword up to its semicolon and skips it
lease_field_skipping ==
  Fn(<<anyspace0,
       alt(<<field_starts, field_ends, field_tstp, field_cltt,
             field_hardware_ethernet, field_client_hostname, field_uid,
             field_vendor_class_identifier, binding_state,
             Fn(<<space0, space0, take_while1(Chars \ {";", "{", "}"})>>, "field_uid")>>),
       anyspace0, char(";"), anyspace0>>,
     "lease_field")

lease_field ==
  Fn(<<anyspace0,
       alt(<<field_starts, field_ends, field_tstp, field_cltt,
             field_hardware_ethernet, field_client_hostname, field_uid,
             field_vendor_class_identifier, binding_state>>),
       anyspace0, char(";"), anyspace0>>,
     "lease_field")

lease ==
  Fn(<<anyspace0, tag(<<"l","e","a","s","e">>), anyspace1, val_address, anyspace0,
       char("{"), anyspace0, many1(lease_field), anyspace0, char("}"),
       anyspace0>>,
     "lease")

server_duid ==
  Fn(<<tag(<<"s","e","r","v","e","r","-","d","u","i","d">>), anyspace1, val_string, anyspace0, char(";"),
       anyspace0>>,
     "server_duid")

authoring_byte_order ==
  Fn(<<tag(<<"a","u","t","h","o","r","i","n","g","-","b","y","t","e","-","o","r","d","e","r">>), anyspace1,
       alt(<<tag(<<"l","i","t","t","l","e","-","e","n","d","i","a","n">>), tag(<<"b","i","g","-","e","n","d","i","a","n">>)>>),
       anyspace0, char(";"), anyspace0>>,
     "authoring_byte_order")

lease_file_items ==
  Fn(<<many1(preceded(anyspace0,
                      alt(<<authoring_byte_order, server_duid, lease>>)))>>,
     "lease_file_items")

\* a LeaseField
Field(f, v) == [f |-> f, v |-> v]

\* what the functions of dhcp_parsers/leases.rs return of their steps' values
leases_value(f, v) ==
  CASE f = "val_date" ->
         from_ymd_or_default(ParseI32OrDefault(v[1]), ParseU32OrDefault(v[3]),
                             ParseU32OrDefault(v[5]))
    [] f = "val_time" ->
         from_hms_or_default(ParseU32OrDefault(v[1]), ParseU32OrDefault(v[3]),
                             ParseU32OrDefault(v[5]))
    [] f = "val_never" -> None
    [] f = "val_datetime" -> Some([date |-> v[3], time |-> v[5]])
    [] f = "field_starts" -> Field("Starts", v[3])
    [] f = "field_ends" -> Field("Ends", v[3])
    [] f = "field_tstp" -> Field("Tstp", v[3])
    [] f = "field_cltt" -> Field("Cltt", v[3])
    [] f = "field_hardware_ethernet" -> Field("HardwareEthernet", v[1])
    [] f = "field_uid" -> Field("Uid", v[3])
    [] f = "field_client_hostname" -> Field("ClientHostname", v[3])
    [] f = "field_vendor_class_identifier" ->
         Field("VendorClassIdentifier", v[7])
    [] f = "binding_state" ->
         Field("Ignore", UnwrapOr(v[1], <<>>) \o <<" ","b","i","n","d","i","n","g"," ","s","t","a","t","e"," ">> \o v[6])
    [] f = "lease_field" -> v[2]
    [] f = "lease" -> [item |-> "Lease", address |-> v[4], fields |-> v[8]]
    [] f = "server_duid" -> [item |-> "ServerDuid", v |-> v[3]]
    [] f = "authoring_byte_order" ->
         [item |-> "AuthoringByteOrder",
          v |-> IF v[3] = <<"l","i","t","t","l","e","-","e","n","d","i","a","n">> THEN "LittleEndian"
                ELSE "BigEndian"]
    [] f = "lease_file_items" -> v[1]

(***************************************************************************)
(* dhcp_parsers/hosts.rs: the parsers.                                     *)
(***************************************************************************)
\* is_alphanumeric(c as u8) || c == '_' || c == '-'
IdentifierChars == Alpha \cup Digit \cup {"_", "-"}

val_identifier ==
  Fn(<<streaming_take_while1(IdentifierChars)>>, "val_identifier")

val_ipaddr_string == Fn(<<val_address>>, "val_ipaddr_string")

val_int_string == Fn(<<digit1>>, "val_int_string")

val_directive_name ==
  Fn(<<alt(<<tag(<<"d","e","f","a","u","l","t","-","l","e","a","s","e","-","t","i","m","e">>), tag(<<"m","a","x","-","l","e","a","s","e","-","t","i","m","e">>),
             tag(<<"l","o","g","-","f","a","c","i","l","i","t","y">>), tag(<<"o","n","e","-","l","e","a","s","e","-","p","e","r","-","c","l","i","e","n","t">>),
             tag(<<"d","e","n","y">>), tag(<<"p","i","n","g","-","c","h","e","c","k">>),
             tag(<<"u","p","d","a","t","e","-","c","o","n","f","l","i","c","t","-","d","e","t","e","c","t","i","o","n">>), tag(<<"a","u","t","h","o","r","i","t","a","t","i","v","e">>)>>)>>,
     "val_directive_name")

directive ==
  Fn(<<anyspace0, val_directive_name, opt(preceded(anyspace1, val_identifier)),
       anyspace0, char(";")>>,
     "directive")

option_type_text == Fn(<<tag(<<"t","e","x","t">>)>>, "option_type_text")

option_type_unsigned_integer ==
  Fn(<<tuple(<<tag(<<"u","n","s","i","g","n","e","d">>), anyspace1, tag(<<"i","n","t","e","g","e","r">>), anyspace1>>),
       map_res(digit1, "parse_u8")>>,
     "option_type_unsigned_integer")

option_type == alt(<<option_type_text, option_type_unsigned_integer>>)

option_code_type ==
  Fn(<<tag(<<"c","o","d","e">>), anyspace1, map_res(digit1, "parse_u8"), anyspace1,
       char("="), anyspace1, option_type>>,
     "option_code_type")

option_string == Fn(<<val_string>>, "option_string")

option ==
  Fn(<<tag(<<"o","p","t","i","o","n">>), anyspace1, val_identifier, anyspace1,
       alt(<<option_string, option_code_type>>), anyspace0, char(";")>>,
     "option")

pool_field_range ==
  Fn(<<tag(<<"r","a","n","g","e">>), anyspace1, val_address, anyspace1, val_address>>,
     "unit")

pool_field_option ==
  Fn(<<tag(<<"o","p","t","i","o","n">>), anyspace1, val_identifier, anyspace1, val_address>>,
     "unit")

pool_field ==
  Fn(<<anyspace0, alt(<<pool_field_option, pool_field_range>>), anyspace0,
       char(";"), anyspace0>>,
     "unit")

pool_block ==
  Fn(<<tag(<<"p","o","o","l">>), anyspace0, char("{"), anyspace0, many0(pool_field),
       char("}")>>,
     "unit")

subnet_field ==
  Fn(<<val_identifier, anyspace1,
       alt(<<val_ipaddr_string, val_string, val_int_string>>), anyspace0>>,
     "unit")

subnet_option ==
  Fn(<<tag(<<"o","p","t","i","o","n">>), anyspace1, val_identifier, anyspace1,
       alt(<<val_ipaddr_string, val_string>>), anyspace0>>,
     "unit")

subnet_item ==
  Fn(<<preceded(anyspace0,
                alt(<<pool_block,
                      terminated(alt(<<subnet_option, subnet_field>>),
                                 char(";"))>>))>>,
     "unit")

subnet_block ==
  Fn(<<tag(<<"s","u","b","n","e","t">>), anyspace1, val_address, anyspace1, tag(<<"n","e","t","m","a","s","k">>),
       anyspace1, val_address, anyspace0, char("{"), many0(subnet_item),
       anyspace0, char("}")>>,
     "subnet_block")

host_field_max_lease_time ==
  Fn(<<tag(<<"m","a","x","-","l","e","a","s","e","-","t","i","m","e">>), anyspace1, digit1, anyspace0>>,
     "host_field_max_lease_time")

host_field_default_lease_time ==
  Fn(<<tag(<<"d","e","f","a","u","l","t","-","l","e","a","s","e","-","t","i","m","e">>), anyspace1, digit1, anyspace0>>,
     "host_field_default_lease_time")

host_field_set_hostname_override ==
  Fn(<<tag(<<"s","e","t">>), anyspace1, tag(<<"h","o","s","t","n","a","m","e","-","o","v","e","r","r","i","d","e">>), anyspace1,
       char("="), anyspace1, tag(<<"c","o","n","f","i","g","-","o","p","t","i","o","n">>), anyspace1,
       tag(<<"h","o","s","t","-","n","a","m","e">>)>>,
     "host_field_set_hostname_override")

host_field_option ==
  Fn(<<tag(<<"o","p","t","i","o","n">>), anyspace1, val_identifier, anyspace1, val_string>>,
     "host_field_option")

host_field_fixed_address ==
  Fn(<<tag(<<"f","i","x","e","d","-","a","d","d","r","e","s","s">>), anyspace1, val_address>>,
     "host_field_fixed_address")

host_field_hardware_ethernet ==
  Fn(<<keyword_hardware_ethernet>>, "host_field_hardware_ethernet")

host_field ==
  Fn(<<alt(<<host_field_hardware_ethernet, host_field_fixed_address,
             host_field_option, host_field_set_hostname_override,
             host_field_default_lease_time, host_field_max_lease_time>>),
       anyspace0, char(";")>>,
     "host_field")

\* host_block with anyspace0 before the closing brace, as lease has it
host_block_anyspace0 ==
  Fn(<<tag(<<"h","o","s","t">>), anyspace1, val_identifier, anyspace0, char("{"),
       anyspace0, many1(preceded(anyspace0, host_field)), anyspace0,
       char("}")>>,
     "host_block")

host_block ==
  Fn(<<tag(<<"h","o","s","t">>), anyspace1, val_identifier, anyspace0, char("{"),
       anyspace0, many1(preceded(anyspace0, host_field)), anyspace1,
       char("}")>>,
     "host_block")

file_item ==
  Fn(<<anyspace0, alt(<<host_block, subnet_block, option, directive>>),
       anyspace0>>,
     "file_item")

dhcpd_conf == Fn(<<all_consuming(many0(file_item))>>, "dhcpd_conf")

\* impl Display for Ipv4Addr
Ipv4Addr_to_string(a) ==
  Dec(a[1]) \o <<".">> \o Dec(a[2]) \o <<".">> \o Dec(a[3]) \o <<".">>
    \o Dec(a[4])

\* what the functions of dhcp_parsers/hosts.rs return of their steps' values
hosts_value(f, v) ==
  CASE f = "unit" -> <<>>
    [] f = "parse_u8" -> FromStrRadix(v, 10, U8Max)
    [] f = "val_identifier" -> v[1]
    [] f = "val_ipaddr_string" -> Ipv4Addr_to_string(v[1])
    [] f = "val_int_string" -> v[1]
    [] f = "val_directive_name" -> v[1]
    [] f = "directive" -> [item |-> "Directive", name |-> v[2], v |-> v[3]]
    [] f = "option_type_text" -> [t |-> "Text"]
    [] f = "option_type_unsigned_integer" ->
         [t |-> "UnsignedInteger", v |-> v[2]]
    [] f = "option_code_type" -> [t |-> "CodeType", code |-> v[3], ty |-> v[7]]
    [] f = "option_string" -> [t |-> "String", v |-> v[1]]
    [] f = "option" -> [item |-> "Option", name |-> v[3], v |-> v[5]]
    [] f = "subnet_block" -> [item |-> "Subnet"]
    [] f = "host_field_max_lease_time" ->
         [f |-> "Ignored", v |-> <<"m","a","x","-","l","e","a","s","e","-","t","i","m","e"," ">> \o v[3]]
    [] f = "host_field_default_lease_time" ->
         [f |-> "Ignored", v |-> <<"d","e","f","a","u","l","t","-","l","e","a","s","e","-","t","i","m","e"," ">> \o v[3]]
    [] f = "host_field_set_hostname_override" ->
         [f |-> "Ignored",
          v |-> <<"s","e","t"," ","h","o","s","t","n","a","m","e","-","o","v","e","r","r","i","d","e"," ","="," ","c","o","n","f","i","g","-","o","p","t","i","o","n"," ","h","o","s","t","-","n","a","m","e">>]
    [] f = "host_field_option" -> [f |-> "Option", name |-> v[3], v |-> v[5]]
    [] f = "host_field_fixed_address" -> [f |-> "FixedAddress", v |-> v[3]]
    [] f = "host_field_hardware_ethernet" ->
         [f |-> "HardwareEthernet", v |-> v[1]]
    [] f = "host_field" -> v[1]
    [] f = "host_block" -> [item |-> "Host", label |-> v[3], fields |-> v[7]]
    [] f = "file_item" -> v[2]
    [] f = "dhcpd_conf" -> v[1]

(***************************************************************************)
(* nom: the application of a parser.                                       *)
(***************************************************************************)
ModFns ==
  {"empty", "ok_empty", "str_octal_escape", "str_char_escape", "str_literal",
   "val_string", "val_hexbyte", "val_macaddr", "keyword_hardware_ethernet",
   "val_address"}

LeasesFns ==
  {"val_date", "val_time", "val_never", "val_datetime", "field_starts",
   "field_ends", "field_tstp", "field_cltt", "field_hardware_ethernet",
   "field_uid", "field_client_hostname", "field_vendor_class_identifier",
   "binding_state", "lease_field", "lease", "server_duid",
   "authoring_byte_order", "lease_file_items"}

\* the value the function named f makes of the values v of its steps
Apply(f, v) ==
  IF f \in ModFns THEN mod_value(f, v)
  ELSE IF f \in LeasesFns THEN leases_value(f, v)
  ELSE hosts_value(f, v)

RECURSIVE parse(_, _, _)
RECURSIVE parse_tuple(_, _, _, _, _)
RECURSIVE parse_alt(_, _, _, _)
RECURSIVE parse_many(_, _, _, _)

\* the parsers gs from the j-th on, one after the other: the first that is
\* not Ok is returned (the ? of a function, tuple, count)
parse_tuple(gs, j, s, i, acc) ==
  IF j > Len(gs) THEN Ok(i, acc)
  ELSE LET r == parse(gs[j], s, i)
       IN IF r.k = "Ok" THEN parse_tuple(gs, j + 1, s, r.p, Append(acc, r.v))
          ELSE r

\* alt: only an Error falls through to the next branch
parse_alt(gs, j, s, i) ==
  IF j > Len(gs) THEN Error(i)
  ELSE LET r == parse(gs[j], s, i)
       IN IF r.k = "Error" THEN parse_alt(gs, j + 1, s, i) ELSE r

\* the loop of many0 and many1: an Error ends the list, anything else that
\* is not Ok is returned, an Ok that consumed nothing is an Error
parse_many(g, s, i, acc) ==
  LET r == parse(g, s, i)
  IN IF r.k = "Error" THEN Ok(i, acc)
     ELSE IF r.k # "Ok" THEN r
     ELSE IF r.p = i THEN Error(i)
     ELSE parse_many(g, s, r.p, Append(acc, r.v))

parse(g, s, i) ==
  CASE g.n = "tag" ->
         IF i + Len(g.t) - 1 <= Len(s) /\ SubSeq(s, i, i + Len(g.t) - 1) = g.t
           THEN Ok(i + Len(g.t), g.t)
           ELSE Error(i)
    [] g.n = "char" ->
         IF ~AtEnd(s, i) /\ s[i] = g.c THEN Ok(i + 1, g.c) ELSE Error(i)
    [] g.n = "one_of" ->
         IF ~AtEnd(s, i) /\ s[i] \in g.set THEN Ok(i + 1, s[i]) ELSE Error(i)
    [] g.n = "streaming_one_of" ->
         IF AtEnd(s, i) THEN Incomplete(i)
         ELSE IF s[i] \in g.set THEN Ok(i + 1, s[i])
         ELSE Error(i)
    [] g.n = "take_while" ->
         LET e == RunEnd(g.set, s, i) IN Ok(e, SubSeq(s, i, e - 1))
    [] g.n = "take_while1" ->
         LET e == RunEnd(g.set, s, i)
         IN IF e = i THEN Error(i) ELSE Ok(e, SubSeq(s, i, e - 1))
    [] g.n = "streaming_take_while1" ->
         LET e == RunEnd(g.set, s, i)
         IN IF AtEnd(s, e) THEN Incomplete(i)
            ELSE IF e = i THEN Error(i)
            ELSE Ok(e, SubSeq(s, i, e - 1))
    [] g.n = "eof" -> IF AtEnd(s, i) THEN Ok(i, <<>>) ELSE Error(i)
    [] g.n = "alt" -> parse_alt(g.gs, 1, s, i)
    [] g.n = "many0" -> parse_many(g.g, s, i, <<>>)
    [] g.n = "many1" ->
         LET r == parse(g.g, s, i)
         IN IF r.k = "Ok" THEN parse_many(g.g, s, r.p, <<r.v>>) ELSE r
    [] g.n = "opt" ->
         LET r == parse(g.g, s, i)
         IN IF r.k = "Ok" THEN Ok(r.p, Some(r.v))
            ELSE IF r.k = "Error" THEN Ok(i, None)
            ELSE r
    [] g.n = "all_consuming" ->
         LET r == parse(g.g, s, i)
         IN IF r.k = "Ok" /\ ~AtEnd(s, r.p) THEN Error(r.p) ELSE r
    [] g.n = "map_res" ->
         LET r == parse(g.g, s, i)
         IN IF r.k # "Ok" THEN r
            ELSE LET o == Apply(g.f, r.v)
                 IN IF o.some THEN Ok(r.p, o.v) ELSE Error(i)
    [] g.n = "tuple" -> parse_tuple(g.gs, 1, s, i, <<>>)
    [] g.n = "nth" ->
         LET r == parse_tuple(g.gs, 1, s, i, <<>>)
         IN IF r.k = "Ok" THEN Ok(r.p, r.v[g.nth]) ELSE r
    [] g.n = "fn" ->
         LET r == parse_tuple(g.gs, 1, s, i, <<>>)
         IN IF r.k = "Ok" THEN Ok(r.p, Apply(g.f, r.v)) ELSE r
    [] g.n = "fn_res" ->
         LET r == parse_tuple(g.gs, 1, s, i, <<>>)
         IN IF r.k # "Ok" THEN r
            ELSE LET o == Apply(g.f, r.v)
                 IN IF o.some THEN Ok(r.p, o.v) ELSE Error(r.p)

\* Finish::finish, then map_err: an Error is the call's Err; finish panics
\* on Incomplete
finish(r, message) ==
  IF r.k = "Ok" THEN r
  ELSE IF r.k = "Error" THEN [k |-> "Err", err |-> message, p |-> r.p]
  ELSE [k |-> "Panic"]

(***************************************************************************)
(* dhcp_parsers/leases.rs: parse.                                          *)
(***************************************************************************)
NoLease ==
  [starts |-> None, ends |-> None, tstp |-> None, cltt |-> None,
   hardware_ethernet |-> None, client_hostname |-> None]

\* for field in fields { match field { .. } }, where every assignment is
\* made only to a variable that is still unset
RECURSIVE fold_fields_first_wins(_, _, _)
fold_fields_first_wins(fields, j, acc) ==
  IF j > Len(fields) THEN acc
  ELSE LET f == fields[j]
           set(name, v) == IF name \in {"hardware_ethernet", "client_hostname"}
                             THEN (IF acc[name].some THEN acc
                                   ELSE [acc EXCEPT ![name] = Some(v)])
                             ELSE (IF acc[name].some THEN acc
                                   ELSE [acc EXCEPT ![name] = v])
       IN fold_fields_first_wins(fields, j + 1,
            CASE f.f = "Starts" -> set("starts", f.v)
              [] f.f = "Ends" -> set("ends", f.v)
              [] f.f = "Tstp" -> set("tstp", f.v)
              [] f.f = "Cltt" -> set("cltt", f.v)
              [] f.f = "HardwareEthernet" -> set("hardware_ethernet", f.v)
              [] f.f = "ClientHostname" -> set("client_hostname", f.v)
              [] OTHER -> acc)

\* for field in fields { match field { .. } }
RECURSIVE fold_fields(_, _, _)
fold_fields(fields, j, acc) ==
  IF j > Len(fields) THEN acc
  ELSE LET f == fields[j]
       IN fold_fields(fields, j + 1,
            CASE f.f = "Starts" -> [acc EXCEPT !.starts = f.v]
              [] f.f = "Ends" -> [acc EXCEPT !.ends = f.v]
              [] f.f = "Tstp" -> [acc EXCEPT !.tstp = f.v]
              [] f.f = "Cltt" -> [acc EXCEPT !.cltt = f.v]
              [] f.f = "HardwareEthernet" ->
                   [acc EXCEPT !.hardware_ethernet = Some(f.v)]
              [] f.f = "ClientHostname" ->
                   [acc EXCEPT !.client_hostname = Some(f.v)]
              [] OTHER -> acc)

\* for item in lease_file_items { .. }, where the lease of a block replaces
\* the lease that an earlier block gave for the same address
RECURSIVE leases_of_items_merging(_, _, _)
leases_of_items_merging(items, i, leases) ==
  IF i > Len(items) THEN [k |-> "Ok", v |-> leases]
  ELSE IF items[i].item # "Lease"
    THEN leases_of_items_merging(items, i + 1, leases)
  ELSE LET acc == fold_fields(items[i].fields, 1, NoLease)
           others == SelectSeq(leases, LAMBDA l : l.address # items[i].address)
       IN IF ~acc.hardware_ethernet.some
            THEN [k |-> "Err", err |-> "lease missing hardware ethernet"]
            ELSE leases_of_items_merging(items, i + 1,
                   Append(others,
                     [address |-> items[i].address,
                      starts |-> acc.starts, ends |-> acc.ends,
                      tstp |-> acc.tstp, cltt |-> acc.cltt,
                      hardware_ethernet |-> acc.hardware_ethernet.v,
                      client_hostname |-> acc.client_hostname]))

\* for item in lease_file_items { .. }: a lease of every Lease item, or the
\* error of the first one without hardware ethernet
RECURSIVE leases_of_items(_, _, _)
leases_of_items(items, i, leases) ==
  IF i > Len(items) THEN [k |-> "Ok", v |-> leases]
  ELSE IF items[i].item # "Lease" THEN leases_of_items(items, i + 1, leases)
  ELSE LET acc == fold_fields(items[i].fields, 1, NoLease)
       IN IF ~acc.hardware_ethernet.some
            THEN [k |-> "Err", err |-> "lease missing hardware ethernet"]
            ELSE leases_of_items(items, i + 1,
                   Append(leases,
                     [address |-> items[i].address,
                      starts |-> acc.starts, ends |-> acc.ends,
                      tstp |-> acc.tstp, cltt |-> acc.cltt,
                      hardware_ethernet |-> acc.hardware_ethernet.v,
                      client_hostname |-> acc.client_hostname]))

\* leases::parse
leases_parse(s) ==
  LET r == finish(parse(all_consuming(lease_file_items), s, 1), "parse error")
  IN IF r.k = "Ok" THEN leases_of_items(r.v, 1, <<>>) ELSE r

(***************************************************************************)
(* dhcp_parsers/hosts.rs: parse.                                           *)
(***************************************************************************)
\* for field in fields { if let .. = field { return Some(..) } } None
first_field(fields, P(_)) ==
  IF \E j \in 1..Len(fields) : P(fields[j])
    THEN Some(fields[CHOOSE j \in 1..Len(fields) :
                       P(fields[j]) /\ \A h \in 1..(j - 1) : ~P(fields[h])])
    ELSE None

\* a fixed_address that goes through all the fields and keeps the last
fixed_address_last(item) ==
  IF item.item # "Host" THEN None
  ELSE LET at == {j \in 1..Len(item.fields) : item.fields[j].f = "FixedAddress"}
       IN IF at = {} THEN None
          ELSE Some(item.fields[CHOOSE j \in at : \A h \in at : h <= j].v)

\* HostFileItem::fixed_address
fixed_address(item) ==
  IF item.item # "Host" THEN None
  ELSE LET o == first_field(item.fields, LAMBDA fl : fl.f = "FixedAddress")
       IN IF o.some THEN Some(o.v.v) ELSE None

\* HostFileItem::hardware_ethernet
hardware_ethernet(item) ==
  IF item.item # "Host" THEN None
  ELSE LET o == first_field(item.fields,
                            LAMBDA fl : fl.f = "HardwareEthernet")
       IN IF o.some THEN Some(o.v.v) ELSE None

\* HostFileItem::hostname
hostname(item) ==
  IF item.item # "Host" THEN None
  ELSE LET o == first_field(item.fields,
                  LAMBDA fl : fl.f = "Option" /\ fl.name = <<"h","o","s","t","-","n","a","m","e">>)
       IN IF o.some THEN Some(o.v.v) ELSE None

\* for item in items { .. }, where each host is put before the hosts of
\* the items above it
RECURSIVE hosts_of_items_newest_first(_, _, _)
hosts_of_items_newest_first(items, i, hosts) ==
  IF i > Len(items) THEN [k |-> "Ok", v |-> hosts]
  ELSE IF ~fixed_address(items[i]).some \/ ~hardware_ethernet(items[i]).some
    THEN hosts_of_items_newest_first(items, i + 1, hosts)
  ELSE hosts_of_items_newest_first(items, i + 1,
         <<[fixed_address |-> fixed_address(items[i]).v,
            hardware_ethernet |-> hardware_ethernet(items[i]).v,
            hostname |-> hostname(items[i])]>> \o hosts)

\* for item in items { .. }: a host of every item that has a fixed address
\* and a hardware ethernet
RECURSIVE hosts_of_items(_, _, _)
hosts_of_items(items, i, hosts) ==
  IF i > Len(items) THEN [k |-> "Ok", v |-> hosts]
  ELSE IF ~fixed_address(items[i]).some \/ ~hardware_ethernet(items[i]).some
    THEN hosts_of_items(items, i + 1, hosts)
  ELSE hosts_of_items(items, i + 1,
         Append(hosts,
           [fixed_address |-> fixed_address(items[i]).v,
            hardware_ethernet |-> hardware_ethernet(items[i]).v,
            hostname |-> hostname(items[i])]))

\* hosts::parse
hosts_parse(s) ==
  LET r == finish(parse(dhcpd_conf, s, 1), "Failed to parse dhcpd.conf")
  IN IF r.k = "Ok" THEN hosts_of_items(r.v, 1, <<>>) ELSE r

(***************************************************************************)
(* State.  written: what the environment has composed (the groups of a MAC *)
(* text, the bytes of a MacAddr, the elements of a vendor document, the    *)
(* tokens of a file).  input: the text or document handed to the           *)
(* operation.  op: the step the run is at, then the operation applied.     *)
(* result: what the operation returned.                                    *)
(***************************************************************************)
VARIABLES written, input, op, result

\* The server.  db: the Database behind the mutex.  lock: who holds the
\* mutex.  watcher: where the task of watch_files is, and its locals.
\* handler: where a request of index is, and what it has read.  fs: the two
\* files, each with its text (none when it cannot be read) and the time it
\* was modified.  now: the clock, which is read as the number of times a
\* file has been rewritten.  shutdown: the cancellation token.  log:
\* what the calls of the parsers were given and gave, and which call of
\* update_leases or update_hosts wrote each field of db.
VARIABLES db, lock, watcher, handler, fs, now, shutdown, log

server == <<db, lock, watcher, handler, fs, now, shutdown, log>>

vars == <<written, input, op, result, server>>

NoResult == [k |-> "none"]

\* Database::new
Database_new ==
  [leases |-> <<>>, hosts |-> <<>>,
   last_update_leases |-> None, last_update_hosts |-> None,
   last_update_check |-> None]

\* the server before main has spawned its tasks, with no files
ServerOff ==
  /\ db = Database_new
  /\ lock = "free"
  /\ watcher = [pc |-> "off"]
  /\ handler = [pc |-> "off"]
  /\ fs = <<>>
  /\ now = 0
  /\ shutdown = FALSE
  /\ log = <<>>

(***************************************************************************)
(* MAC texts: MacAddr::from_str and val_macaddr on composed texts.         *)
(***************************************************************************)
\* groups of two hex digits, in either case
PlainGroups == {<<"0","a">>, <<"0","A">>, <<"5","f">>}

\* groups that are no two hex digits: a sign, a letter past f, one digit,
\* three digits, none
OddGroups == {<<"+","f">>, <<"0","g">>, <<"a">>, <<"0","a","0">>, <<>>}

OddCount(groups) == Cardinality({i \in 1..Len(groups) : groups[i] \in OddGroups})

InitMac ==
  /\ written = <<>>
  /\ input = <<>>
  /\ op = "compose"
  /\ result = NoResult
  /\ ServerOff

\* the environment appends one more group to the MAC text
MacWriteGroup ==
  /\ op = "compose"
  /\ Len(written) < MacLen + 1
  /\ \E g \in PlainGroups \cup OddGroups :
       /\ g \in OddGroups => OddCount(written) < MaxOdd
       /\ written' = Append(written, g)
  /\ UNCHANGED <<input, op, result, server>>

\* the groups are joined with ':' into the text
MacJoin ==
  /\ op = "compose"
  /\ written # <<>>
  /\ input' = Join(written, <<":">>)
  /\ op' = "text"
  /\ UNCHANGED <<written, result, server>>

\* MacAddr::from_str(text)
MacFromStr ==
  /\ op = "text"
  /\ result' = MacAddr_from_str(input)
  /\ op' = "MacAddr::from_str"
  /\ UNCHANGED <<written, input, server>>

\* val_macaddr(text)
MacLiteral ==
  /\ op = "text"
  /\ result' = parse(val_macaddr, input, 1)
  /\ op' = "val_macaddr"
  /\ UNCHANGED <<written, input, server>>

NextMac == MacWriteGroup \/ MacJoin \/ MacFromStr \/ MacLiteral

SpecMac == InitMac /\ [][NextMac]_vars

(***************************************************************************)
(* IPv4 literals: val_address on composed texts.                           *)
(***************************************************************************)
\* digit groups within and beyond the range of a byte
DigitGroups ==
  {<<"0">>, <<"1","0">>, <<"0","0","7">>, <<"2","5","5">>, <<"2","5","6">>, <<"9","9","9">>}

\* the environment appends one more digit group to the literal
AddressWriteGroup ==
  /\ op = "compose"
  /\ Len(written) < 4
  /\ \E g \in DigitGroups : written' = Append(written, g)
  /\ UNCHANGED <<input, op, result, server>>

\* val_address(text), the groups joined with '.'
AddressLiteral ==
  /\ op = "compose"
  /\ written # <<>>
  /\ input' = Join(written, <<".">>)
  /\ result' = parse(val_address, input', 1)
  /\ op' = "val_address"
  /\ UNCHANGED <<written, server>>

NextAddress == AddressWriteGroup \/ AddressLiteral

SpecAddress == InitMac /\ [][NextAddress]_vars

(***************************************************************************)
(* Octal escapes: val_string on a literal of one escape.                   *)
(***************************************************************************)
\* the environment appends one more octal digit to the escape
EscapeWriteDigit ==
  /\ op = "compose"
  /\ Len(written) < 3
  /\ \E d \in OctDigit : written' = Append(written, d)
  /\ UNCHANGED <<input, op, result, server>>

\* val_string(text), the text being "\NNN" within quotes
EscapeLiteral ==
  /\ op = "compose"
  /\ Len(written) = 3
  /\ input' = <<"\"", "\\">> \o written \o <<"\"">>
  /\ result' = parse(val_string, input', 1)
  /\ op' = "val_string"
  /\ UNCHANGED <<written, server>>

NextEscape == EscapeWriteDigit \/ EscapeLiteral

SpecEscape == InitMac /\ [][NextEscape]_vars

(***************************************************************************)
(* Whitespace and comments: anyspace0 and anyspace1 on composed texts.     *)
(***************************************************************************)
\* whitespace, the comment sign, and characters that are neither
SpaceChars == {" ", "\t", "\r", "\n", "#", "a", ";"}

\* the environment appends one more character to the text
SpaceWriteChar ==
  /\ op = "compose"
  /\ Len(written) < MaxText
  /\ \E c \in SpaceChars : written' = Append(written, c)
  /\ UNCHANGED <<input, op, result, server>>

\* anyspace0(text)
Anyspace0 ==
  /\ op = "compose"
  /\ input' = written
  /\ result' = parse(anyspace0, input', 1)
  /\ op' = "anyspace0"
  /\ UNCHANGED <<written, server>>

\* anyspace1(text)
Anyspace1 ==
  /\ op = "compose"
  /\ input' = written
  /\ result' = parse(anyspace1, input', 1)
  /\ op' = "anyspace1"
  /\ UNCHANGED <<written, server>>

NextSpace == SpaceWriteChar \/ Anyspace0 \/ Anyspace1

SpecSpace == InitMac /\ [][NextSpace]_vars

(***************************************************************************)
(* Round trip: a MacAddr is displayed and the text is parsed again.        *)
(***************************************************************************)
ByteSample == {0, 9, 10, 171, 255}

\* the environment chooses the next byte of the MacAddr
MacPushByte ==
  /\ op = "compose"
  /\ Len(written) < MacLen
  /\ \E b \in ByteSample : written' = Append(written, b)
  /\ UNCHANGED <<input, op, result, server>>

\* mac.to_string()
MacDisplay ==
  /\ op = "compose"
  /\ Len(written) = MacLen
  /\ input' = MacAddr_Display(written)
  /\ op' = "text"
  /\ UNCHANGED <<written, result, server>>

NextRoundTrip == MacPushByte \/ MacDisplay \/ MacFromStr \/ MacLiteral

SpecRoundTrip == InitMac /\ [][NextRoundTrip]_vars

(***************************************************************************)
(* vendor_macs.rs: the vendor table.  The trie is the map from the         *)
(* inserted nibble sequences to their names; a document is the sequence of *)
(* events the XML reader yields, an element being                          *)
(* [kind, name, attrs], attrs a sequence of [key, value] in document order.*)
(***************************************************************************)
\* Trie::new()
Trie_new == <<>>

\* an insertion that replaces the node at the key, losing what was stored
\* below it
Trie_insert_replacing_node(trie, key, name) ==
  LET kept == {k \in DOMAIN trie :
                 ~(Len(k) > Len(key) /\ SubSeq(k, 1, Len(key)) = key)}
  IN [k \in kept \cup {key} |-> IF k = key THEN name ELSE trie[k]]

\* an insertion that keeps the name already stored at the key
Trie_insert_keeping_first(trie, key, name) ==
  [k \in (DOMAIN trie) \cup {key} |-> IF k \in DOMAIN trie THEN trie[k] ELSE name]

\* Trie::insert: the name is stored at the key, replacing the one there
Trie_insert(trie, key, name) ==
  [k \in (DOMAIN trie) \cup {key} |-> IF k = key THEN name ELSE trie[k]]

StartsWith(key, prefix) ==
  Len(prefix) <= Len(key) /\ SubSeq(key, 1, Len(prefix)) = prefix

\* Trie::get_ancestor_value: walk down along the key from the root (depth
\* 0), keeping the value of the deepest node passed that has one
RECURSIVE get_ancestor_value_walk(_, _, _, _)
get_ancestor_value_walk(trie, key, depth, best) ==
  IF depth > Len(key) THEN best
  ELSE LET node == SubSeq(key, 1, depth)
       IN get_ancestor_value_walk(trie, key, depth + 1,
            IF node \in DOMAIN trie THEN Some(trie[node]) ELSE best)

get_ancestor_value(trie, key) == get_ancestor_value_walk(trie, key, 0, None)

\* the walk that stops at the first node that has a value
RECURSIVE get_first_value_walk(_, _, _)
get_first_value_walk(trie, key, depth) ==
  IF depth > Len(key) THEN None
  ELSE LET node == SubSeq(key, 1, depth)
       IN IF node \in DOMAIN trie THEN Some(trie[node])
          ELSE get_first_value_walk(trie, key, depth + 1)

get_vendor_name_shortest(table, mac) ==
  get_first_value_walk(table, MacPrefix_from_mac(mac), 0)

\* VendorMapping::get_vendor_name
get_vendor_name(table, mac) == get_ancestor_value(table, MacPrefix_from_mac(mac))

Whitespace == {" ", "\t", "\n", "\r"}

\* str::trim
RECURSIVE TrimStart(_)
TrimStart(s) ==
  IF s # <<>> /\ Head(s) \in Whitespace THEN TrimStart(Tail(s)) ELSE s

RECURSIVE TrimEnd(_)
TrimEnd(s) ==
  IF s # <<>> /\ s[Len(s)] \in Whitespace
    THEN TrimEnd(SubSeq(s, 1, Len(s) - 1)) ELSE s

Trim(s) == TrimEnd(TrimStart(s))

\* for attr in e.attributes(): the reader reports a repeated attribute as
\* an error (attr?), mac_prefix is parsed at once (from_str(..)?), the
\* name is kept as written
RECURSIVE attributes_loop(_, _, _, _)
attributes_loop(attrs, j, mac_prefix, vendor_name) ==
  IF j > Len(attrs)
    THEN [ok |-> TRUE, mac_prefix |-> mac_prefix, vendor_name |-> vendor_name]
  ELSE IF \E h \in 1..(j - 1) : attrs[h].key = attrs[j].key
    THEN [ok |-> FALSE, err |-> "XmlAttr"]
  ELSE IF attrs[j].key = "mac_prefix"
    THEN LET p == MacPrefix_from_str(attrs[j].value)
         IN IF ~p.ok THEN [ok |-> FALSE, err |-> "InvalidMacPrefix"]
            ELSE attributes_loop(attrs, j + 1, Some(p.v), vendor_name)
  ELSE IF attrs[j].key = "vendor_name"
    THEN attributes_loop(attrs, j + 1, mac_prefix, Some(attrs[j].value))
  ELSE attributes_loop(attrs, j + 1, mac_prefix, vendor_name)

\* the body of the Event::Empty arm, which inserts whatever prefix it
\* read, under an empty name when there is none
parse_element_default_name(e, trie) ==
  LET a == attributes_loop(e.attrs, 1, None, None)
  IN IF ~a.ok THEN a
     ELSE IF a.mac_prefix.some
       THEN [ok |-> TRUE,
             v |-> Trie_insert(trie, a.mac_prefix.v,
                               Trim(UnwrapOr(a.vendor_name, <<>>)))]
     ELSE [ok |-> TRUE, v |-> trie]

\* the body of the Event::Empty arm: the attributes, then the insertion
\* when both were present
parse_element(e, trie) ==
  LET a == attributes_loop(e.attrs, 1, None, None)
  IN IF ~a.ok THEN a
     ELSE IF a.mac_prefix.some /\ a.vendor_name.some
       THEN [ok |-> TRUE,
             v |-> Trie_insert(trie, a.mac_prefix.v, Trim(a.vendor_name.v))]
     ELSE [ok |-> TRUE, v |-> trie]

RECURSIVE VendorMapping_parse_loop(_, _, _)
VendorMapping_parse_loop(events, i, trie) ==
  IF i > Len(events) THEN [ok |-> TRUE, v |-> trie]
  ELSE IF events[i].kind = "Empty" /\ events[i].name = "VendorMapping"
    THEN LET r == parse_element(events[i], trie)
         IN IF ~r.ok THEN r ELSE VendorMapping_parse_loop(events, i + 1, r.v)
  ELSE VendorMapping_parse_loop(events, i + 1, trie)

\* VendorMapping::parse
VendorMapping_parse(events) == VendorMapping_parse_loop(events, 1, Trie_new)

(***************************************************************************)
(* Vendor documents: the environment composes a document, the table is     *)
(* built from the elements in some order, and MACs are looked up.          *)
(***************************************************************************)
Attr(key, value) == [key |-> key, value |-> value]

Mapping(attrs) == [kind |-> "Empty", name |-> "VendorMapping", attrs |-> attrs]

ElementPool ==
  { Mapping(<<Attr("mac_prefix", <<"1","0",":","2","0",":","3","0">>), Attr("vendor_name", <<" ","A","c","m","e"," ">>)>>),
    Mapping(<<Attr("vendor_name", <<"B","e","t","a">>), Attr("mac_prefix", <<"1","0",":","2","0",":","3","0",":","4","0",":","5","0">>)>>),
    Mapping(<<Attr("mac_prefix", <<"1","0",":","2","0",":","3","0">>), Attr("vendor_name", <<"G","a","m","m","a">>)>>),
    Mapping(<<Attr("mac_prefix", <<"0","A",":","b">>), Attr("vendor_name", <<"D","e","l","t","a">>)>>),
    Mapping(<<Attr("vendor_name", <<"N","o","P","r","e","f","i","x">>)>>),
    Mapping(<<Attr("mac_prefix", <<"0","a",":","0","b",":","0","c">>)>>),
    Mapping(<<Attr("mac_prefix", <<"1","g",":","2","0">>)>>),
    Mapping(<<Attr("mac_prefix", <<"1","g",":","2","0">>), Attr("vendor_name", <<"B","a","d","C","h","a","r">>)>>),
    Mapping(<<Attr("mac_prefix", <<"1","0",":","2","0","0">>), Attr("vendor_name", <<"L","o","n","g","G","r","o","u","p">>)>>),
    Mapping(<<Attr("mac_prefix", <<"1",":","2",":","3",":","4",":","5",":","6",":","7">>), Attr("vendor_name", <<"S","e","v","e","n">>)>>),
    Mapping(<<Attr("mac_prefix", <<"1","0",":","2","0",":","3","0",":","4","0",":","5","0",":","6","0",":","7","0">>),
              Attr("vendor_name", <<"T","o","o","L","o","n","g">>)>>),
    [kind |-> "Start", name |-> "VendorMapping",
     attrs |-> <<Attr("mac_prefix", <<"0","a",":","0","b">>), Attr("vendor_name", <<"O","p","e","n">>)>>] }

MacSample ==
  { <<16, 32, 48, 64, 80, 96>>, <<16, 32, 48, 170, 187, 204>>,
    <<16, 32, 49, 170, 187, 204>>, <<10, 176, 0, 0, 0, 1>>,
    <<10, 11, 12, 13, 14, 15>>, <<18, 52, 86, 112, 0, 0>> }

InitVendor ==
  /\ written = <<>>
  /\ input = <<>>
  /\ op = "compose"
  /\ result = NoResult
  /\ ServerOff

\* the environment appends one more element to the document
VmWriteElement ==
  /\ op = "compose"
  /\ Len(written) < MaxElements
  /\ \E e \in ElementPool : written' = Append(written, e)
  /\ UNCHANGED <<input, op, result, server>>

\* VendorMapping::parse on the elements of the document in some order
VmParse ==
  /\ op = "compose"
  /\ \E perm \in Permutations(1..Len(written)) :
       /\ input' = [i \in 1..Len(written) |-> written[perm[i]]]
       /\ result' = VendorMapping_parse(input')
  /\ op' = "VendorMapping::parse"
  /\ UNCHANGED <<written, server>>

\* get_vendor_name(mac) on the table that was built
VmLookup ==
  /\ op = "VendorMapping::parse"
  /\ result.ok
  /\ \E mac \in MacSample :
       result' = [ok |-> TRUE, v |-> result.v, mac |-> mac,
                  name |-> get_vendor_name(result.v, mac)]
  /\ op' = "get_vendor_name"
  /\ UNCHANGED <<written, input, server>>

NextVendor == VmWriteElement \/ VmParse \/ VmLookup

SpecVendor == InitVendor /\ [][NextVendor]_vars


(***************************************************************************)
(* Properties of the vendor table (SpecVendor).                            *)
(***************************************************************************)
StrictlyExtends(p2, p1) == StartsWith(p2, p1) /\ Len(p2) > Len(p1)

\* C3: in a table that holds the prefixes P1 and P2, P2 strictly extending
\* P1, get_vendor_name gives P2's name for a MAC that starts with P2, P1's
\* name for a MAC that starts with P1 and not with P2; in any table it gives
\* the name of the longest inserted prefix the MAC starts with, and None
\* for a MAC that starts with no inserted prefix.
C3_LongestPrefixLaw ==
  op = "get_vendor_name" =>
    LET t == result.v
        key == MacPrefix_from_mac(result.mac)
    IN /\ \A P1 \in DOMAIN t, P2 \in DOMAIN t :
            (DOMAIN t = {P1, P2} /\ StrictlyExtends(P2, P1)) =>
              /\ StartsWith(key, P2) => result.name = Some(t[P2])
              /\ (StartsWith(key, P1) /\ ~StartsWith(key, P2)) =>
                   result.name = Some(t[P1])
       /\ \A P \in DOMAIN t :
            (/\ StartsWith(key, P)
             /\ \A Q \in DOMAIN t : StartsWith(key, Q) => Len(Q) <= Len(P)) =>
              result.name = Some(t[P])
       /\ (\A P \in DOMAIN t : ~StartsWith(key, P)) => result.name = None

\* a MAC that starts with both prefixes was looked up in a table of two
C3_Witness ==
  /\ op = "get_vendor_name"
  /\ DOMAIN result.v = {<<1, 0, 2, 0, 3, 0>>, <<1, 0, 2, 0, 3, 0, 4, 0, 5, 0>>}
  /\ result.mac = <<16, 32, 48, 64, 80, 96>>
  /\ result.name = Some(<<"B", "e", "t", "a">>)

\* the elements of a document that VendorMapping::parse reads as mappings
IsMapping(e) == e.kind = "Empty" /\ e.name = "VendorMapping"

HasAttr(e, key) == \E j \in 1..Len(e.attrs) : e.attrs[j].key = key

AttrValue(e, key) ==
  e.attrs[CHOOSE j \in 1..Len(e.attrs) : e.attrs[j].key = key].value

IsComplete(e) == IsMapping(e) /\ HasAttr(e, "mac_prefix") /\ HasAttr(e, "vendor_name")

\* every mac_prefix the document's mappings carry is accepted by
\* MacPrefix::from_str
PrefixesAccepted(doc) ==
  \A i \in 1..Len(doc) :
    (IsMapping(doc[i]) /\ HasAttr(doc[i], "mac_prefix")) =>
      MacPrefix_from_str(AttrValue(doc[i], "mac_prefix")).ok

KeyOf(e) == MacPrefix_from_str(AttrValue(e, "mac_prefix")).v

\* two builds agree: both fail, or both give a table and every sampled MAC
\* resolves to the same name in both
SameLookups(r1, r2) ==
  /\ r1.ok = r2.ok
  /\ r1.ok => \A mac \in MacSample :
                get_vendor_name(r1.v, mac) = get_vendor_name(r2.v, mac)

\* C4 as stated: the table built from any permutation of the list resolves
\* every MAC as the table built from the list itself.
C4_OrderNeverMatters ==
  op = "VendorMapping::parse" =>
    SameLookups(result, VendorMapping_parse(written))

\* no two complete mappings of the document give one prefix two names
NoConflictingPrefix(doc) ==
  \A i \in 1..Len(doc), j \in 1..Len(doc) :
    (IsComplete(doc[i]) /\ IsComplete(doc[j]) /\ PrefixesAccepted(doc)
       /\ KeyOf(doc[i]) = KeyOf(doc[j])) =>
      Trim(AttrValue(doc[i], "vendor_name")) = Trim(AttrValue(doc[j], "vendor_name"))

\* C4 amended: when no two mappings of the list give the same prefix
\* different names, the table built from any permutation of the list
\* resolves every MAC as the table built from the list itself.
C4_OrderOfDistinctPrefixes ==
  (op = "VendorMapping::parse" /\ NoConflictingPrefix(written)) =>
    SameLookups(result, VendorMapping_parse(written))

\* a table of two prefixes, one extending the other, was built from the
\* list in another order
C4_Witness ==
  /\ op = "VendorMapping::parse"
  /\ input # written
  /\ NoConflictingPrefix(written)
  /\ result.ok
  /\ DOMAIN result.v = {<<1, 0, 2, 0, 3, 0>>, <<1, 0, 2, 0, 3, 0, 4, 0, 5, 0>>}

\* a mac_prefix value the specification calls malformed: a character that
\* is no hex digit, more than six groups, or a group of more than two
MalformedPrefix(text) ==
  LET groups == Split(text, ":", <<>>)
  IN \/ Len(groups) > MacLen
     \/ \E i \in 1..Len(groups) :
          \/ Len(groups[i]) > 2
          \/ \E j \in 1..Len(groups[i]) : ToDigit(groups[i][j], 16) < 0

\* C5: VendorMapping::parse returns an error whenever a VendorMapping
\* element carries a malformed mac_prefix.
C5_MalformedPrefixFails ==
  op = "VendorMapping::parse" =>
    ((\E i \in 1..Len(input) :
        /\ IsMapping(input[i])
        /\ HasAttr(input[i], "mac_prefix")
        /\ MalformedPrefix(AttrValue(input[i], "mac_prefix")))
     => ~result.ok)

\* the table of the complete mappings of a document: each prefix with the
\* trimmed name of the last complete mapping that gives it
TableOfComplete(doc) ==
  LET complete == {i \in 1..Len(doc) : IsComplete(doc[i])}
      keys == {KeyOf(doc[i]) : i \in complete}
      last(k) == CHOOSE i \in complete :
                   /\ KeyOf(doc[i]) = k
                   /\ \A j \in complete : KeyOf(doc[j]) = k => j <= i
  IN [k \in keys |-> Trim(AttrValue(doc[last(k)], "vendor_name"))]

\* C6 as stated: a mapping that lacks an attribute is skipped without
\* error, so when every complete mapping is well formed the load succeeds
\* with the table of the complete mappings.
C6_IncompleteNeverFails ==
  (/\ op = "VendorMapping::parse"
   /\ \A i \in 1..Len(input) :
        IsComplete(input[i]) =>
          MacPrefix_from_str(AttrValue(input[i], "mac_prefix")).ok) =>
    (result.ok /\ result.v = TableOfComplete(input))

\* C6 amended: a mapping that lacks an attribute is skipped without error
\* provided the mac_prefix it does carry is accepted: when every mac_prefix
\* of the document is accepted, the load succeeds with the table of the
\* complete mappings.
C6_IncompleteSkipped ==
  (op = "VendorMapping::parse" /\ PrefixesAccepted(input)) =>
    (result.ok /\ result.v = TableOfComplete(input))

\* a document with a mapping that lacks an attribute and a complete one
\* was loaded
C6_Witness ==
  /\ op = "VendorMapping::parse"
  /\ result.ok
  /\ \E i \in 1..Len(input) : IsMapping(input[i]) /\ ~IsComplete(input[i])
  /\ DOMAIN result.v = {<<1, 0, 2, 0, 3, 0>>}

(***************************************************************************)
(* Properties of the MAC parsers (SpecMac, SpecRoundTrip).                 *)
(***************************************************************************)
\* a group of exactly two hex digits, of either case
IsTwoHex(g) == Len(g) = 2 /\ \A j \in 1..2 : ToDigit(g[j], 16) >= 0

\* six groups of exactly two hex digits
IsMacText(groups) ==
  Len(groups) = MacLen /\ \A i \in 1..Len(groups) : IsTwoHex(groups[i])

\* the byte two hex digits stand for
GroupByte(g) == 16 * ToDigit(g[1], 16) + ToDigit(g[2], 16)

\* str::to_ascii_lowercase
LowerChar(c) ==
  IF \E i \in 34..59 : Printable[i] = c
    THEN Printable[(CHOOSE i \in 34..59 : Printable[i] = c) + 31]
    ELSE c

ToLower(s) == [i \in 1..Len(s) |-> LowerChar(s[i])]

\* C7: the MAC literal parser accepts six groups of two hex digits of
\* either case, and gives an upper-case text the bytes of its lower-case
\* form.
C7_CaseInsensitive ==
  (op = "val_macaddr" /\ IsMacText(written)) =>
    /\ result.k = "Ok"
    /\ result = parse(val_macaddr, ToLower(input), 1)
    /\ result.v = [i \in 1..MacLen |-> GroupByte(written[i])]

\* C8: MacAddr::from_str returns Ok exactly for six groups of exactly two
\* hex digits.
C8_FromStrExact ==
  op = "MacAddr::from_str" => (result.ok <=> IsMacText(written))

\* C9: the Display text of a MacAddr is six lower-case two-digit hex groups
\* separated by colons, and both MacAddr::from_str and val_macaddr read the
\* MacAddr back from it.
C9_RoundTrip ==
  /\ op = "text" =>
       /\ Len(input) = 3 * MacLen - 1
       /\ \A i \in 1..Len(input) :
            IF i % 3 = 0 THEN input[i] = ":" ELSE input[i] \in HEX
  /\ op = "MacAddr::from_str" => result = [ok |-> TRUE, v |-> written]
  /\ op = "val_macaddr" => result = Ok(Len(input) + 1, written)

\* a MacAddr with letters and leading zeros went through val_macaddr
C9_Witness ==
  /\ op = "val_macaddr"
  /\ written = <<171, 9, 10, 255, 0, 171>>
  /\ input = <<"a","b",":","0","9",":","0","a",":","f","f",":","0","0",":","a","b">>
  /\ result.k = "Ok"


(***************************************************************************)
(* Files: the environment (the DHCP server, an editor) writes a file token *)
(* by token, and the program reads and parses what is there at some        *)
(* moment, possibly before the last token is wholly written.               *)
(***************************************************************************)
RECURSIVE PadLeft(_, _)
PadLeft(digits, width) ==
  IF Len(digits) >= width THEN digits ELSE PadLeft(<<"0">> \o digits, width)

RenderAddress(a) ==
  Dec(a[1]) \o <<".">> \o Dec(a[2]) \o <<".">> \o Dec(a[3]) \o <<".">> \o Dec(a[4])

\* the server's "<weekday> <YYYY>/<MM>/<DD> <HH>:<MM>:<SS>", or never
RenderTime(t) ==
  IF ~t.some THEN <<"n","e","v","e","r">>
  ELSE Dec(t.v.wday) \o <<" ">>
       \o PadLeft(Dec(t.v.date.year), 4) \o <<"/">>
       \o PadLeft(Dec(t.v.date.month), 2) \o <<"/">>
       \o PadLeft(Dec(t.v.date.day), 2) \o <<" ">>
       \o PadLeft(Dec(t.v.time.hour), 2) \o <<":">>
       \o PadLeft(Dec(t.v.time.minute), 2) \o <<":">>
       \o PadLeft(Dec(t.v.time.second), 2)

TimeKinds == {"starts", "ends", "tstp", "cltt"}

Keyword(kind) ==
  CASE kind = "starts" -> <<"s","t","a","r","t","s">>
    [] kind = "ends" -> <<"e","n","d","s">>
    [] kind = "tstp" -> <<"t","s","t","p">>
    [] kind = "cltt" -> <<"c","l","t","t">>

\* the text of a token without the newline that ends its line
TokenCore(tok) ==
  CASE tok.t = "open" -> <<"l","e","a","s","e"," ">> \o RenderAddress(tok.address) \o <<" ","{">>
    [] tok.t = "host" -> <<"h","o","s","t"," ">> \o tok.label \o <<" ","{">>
    [] tok.t = "conf" -> tok.text
    [] tok.t = "field" /\ tok.kind = "fixed-address" ->
         <<" "," ","f","i","x","e","d","-","a","d","d","r","e","s","s"," ">> \o RenderAddress(tok.v) \o <<";">>
    [] tok.t = "field" /\ tok.kind = "option" ->
         <<" "," ","o","p","t","i","o","n"," ">> \o tok.name \o <<" ","\"">> \o tok.v \o <<"\"",";">>
    [] tok.t = "close" -> <<"}">>
    [] tok.t = "header" -> tok.text
    [] tok.t = "field" /\ tok.kind \in TimeKinds ->
         <<" "," ">> \o Keyword(tok.kind) \o <<" ">> \o RenderTime(tok.v) \o <<";">>
    [] tok.t = "field" /\ tok.kind = "hardware ethernet" ->
         <<" "," ","h","a","r","d","w","a","r","e"," ","e","t","h","e","r","n","e","t"," ">> \o MacAddr_Display(tok.v) \o <<";">>
    [] tok.t = "field" /\ tok.kind = "client-hostname" ->
         <<" "," ","c","l","i","e","n","t","-","h","o","s","t","n","a","m","e"," ","\"">> \o tok.v \o <<"\"",";">>
    [] tok.t = "field" /\ tok.kind \in {"other", "unknown"} ->
         <<" "," ">> \o tok.v \o <<";">>

RenderToken(tok) == TokenCore(tok) \o <<"\n">>

RenderFile(tokens) == Concat([i \in 1..Len(tokens) |-> RenderToken(tokens[i])])

\* token k of the file lies wholly within its first n characters
Intact(tokens, k, n) ==
  Len(RenderFile(SubSeq(tokens, 1, k - 1))) + Len(TokenCore(tokens[k])) <= n

Opens(tokens) == {i \in 1..Len(tokens) : tokens[i].t \in {"open", "host"}}
Closes(tokens) == {i \in 1..Len(tokens) : tokens[i].t = "close"}
FieldCount(tokens) == Cardinality({i \in 1..Len(tokens) : tokens[i].t = "field"})
InBlock(tokens) == Cardinality(Opens(tokens)) > Cardinality(Closes(tokens))
\* the file is a host configuration, not a lease database
IsHostFile(tokens) ==
  {i \in 1..Len(tokens) : tokens[i].t \in {"host", "conf"}} # {}

TimeToken(kind, wday, y, mo, d, h, mi, sec) ==
  [t |-> "field", kind |-> kind,
   v |-> Some([wday |-> wday,
               date |-> [year |-> y, month |-> mo, day |-> d],
               time |-> [hour |-> h, minute |-> mi, second |-> sec]])]

NeverToken(kind) == [t |-> "field", kind |-> kind, v |-> None]

HwToken(mac) == [t |-> "field", kind |-> "hardware ethernet", v |-> mac]

HostnameToken(name) == [t |-> "field", kind |-> "client-hostname", v |-> name]

OtherToken(text) == [t |-> "field", kind |-> "other", v |-> text]

\* a field of a keyword that lease_field does not list
UnknownToken(text) == [t |-> "field", kind |-> "unknown", v |-> text]

\* fields of listed and of other keywords
KeywordPool ==
  { HwToken(<<18, 109, 136, 149, 88, 137>>),
    OtherToken(<<"u","i","d"," ","\"","\\","0","0","1","\"">>),
    UnknownToken(<<"n","e","x","t","-","s","e","r","v","e","r"," ","1","0",".","0",".","1",".","1">>),
    UnknownToken(<<"c","l","i","e","n","t","-","h","o","s","t","n","a","m","e","s"," ","\"","a","l","p","h","a","\"">>) }

\* timestamps of real and of impossible dates and times of day
TimePool ==
  { TimeToken("starts", 0, 2022, 11, 20, 21, 27, 34),
    TimeToken("starts", 3, 2022, 2, 30, 21, 27, 34),
    TimeToken("ends", 0, 2022, 11, 20, 24, 0, 0),
    HwToken(<<18, 109, 136, 149, 88, 137>>) }

\* the fields of one block, each kind with more than one value
BlockFieldPool ==
  { TimeToken("starts", 0, 2022, 11, 20, 21, 27, 34),
    NeverToken("starts"),
    TimeToken("ends", 0, 2022, 11, 20, 21, 29, 34), NeverToken("ends"),
    TimeToken("tstp", 1, 2022, 11, 21, 23, 59, 0), NeverToken("tstp"),
    TimeToken("cltt", 0, 2022, 11, 20, 21, 27, 34), NeverToken("cltt"),
    HwToken(<<18, 109, 136, 149, 88, 137>>), HwToken(<<0, 10, 171, 9, 255, 1>>),
    HostnameToken(<<"a","l","p","h","a">>), HostnameToken(<<"b","-","2">>) }

\* the fields of the blocks of a lease file
FileFieldPool ==
  { TimeToken("starts", 0, 2022, 11, 20, 21, 27, 34),
    HwToken(<<18, 109, 136, 149, 88, 137>>),
    OtherToken(<<"b","i","n","d","i","n","g"," ","s","t","a","t","e"," ","a","c","t","i","v","e">>) }

\* the hardware ethernet fields of the blocks of a lease file
HardwarePool ==
  { HwToken(<<18, 109, 136, 149, 88, 137>>), HwToken(<<0, 10, 171, 9, 255, 1>>) }

AddressPool == {<<10, 0, 1, 199>>, <<192, 168, 1, 20>>}

HeaderPool ==
  { [t |-> "header", text |-> <<"a","u","t","h","o","r","i","n","g","-","b","y","t","e","-","o","r","d","e","r"," ","l","i","t","t","l","e","-","e","n","d","i","a","n",";">>],
    [t |-> "header", text |-> <<"s","e","r","v","e","r","-","d","u","i","d"," ","\"","\\","0","0","0","\\","0","0","1","\\","0","0","0","\\","0","0","1","\"",";">>] }

\* the fields of the host blocks of a configuration
HostFieldPool ==
  { HwToken(<<18, 109, 136, 149, 88, 137>>),
    [t |-> "field", kind |-> "fixed-address", v |-> <<10, 0, 1, 5>>],
    [t |-> "field", kind |-> "option", name |-> <<"h","o","s","t","-","n","a","m","e">>,
     v |-> <<"a","l","p","h","a">>] }

LabelPool == {<<"b","_","2">>}

\* what a configuration holds besides its host blocks
ConfPool ==
  { [t |-> "conf", text |-> <<"d","e","n","y"," ","u","n","k","n","o","w","n","-","c","l","i","e","n","t","s",";">>],
    [t |-> "conf",
     text |-> <<"s","u","b","n","e","t"," ","1","0",".","0",".","1",".","0"," ","n","e","t","m","a","s","k"," ","2","5","5",".","2","5","5",".","2","5","5",".","0"," ","{"," ","o","p","t","i","o","n"," ","r","o","u","t","e","r","s"," ","1","0",".","0",".","1",".","1",";"," ","}">>] }

InitFile ==
  /\ written = <<>>
  /\ input = <<>>
  /\ op = "write"
  /\ result = NoResult
  /\ ServerOff

\* the server begins the lease file with a header item
WriteHeader ==
  /\ op = "write"
  /\ written = <<>>
  /\ \E h \in HeaderPool : written' = <<h>>
  /\ UNCHANGED <<input, op, result, server>>

\* the server opens a lease block
WriteOpen(maxBlocks, addresses) ==
  /\ op = "write"
  /\ ~IsHostFile(written)
  /\ ~InBlock(written)
  /\ Cardinality(Opens(written)) < maxBlocks
  /\ \E a \in addresses :
       written' = Append(written, [t |-> "open", address |-> a])
  /\ UNCHANGED <<input, op, result, server>>

\* the server writes one field of the open lease block
WriteField(pool) ==
  /\ op = "write"
  /\ ~IsHostFile(written)
  /\ InBlock(written)
  /\ FieldCount(written) < MaxFields
  /\ \E f \in pool : written' = Append(written, f)
  /\ UNCHANGED <<input, op, result, server>>

\* the writer closes the open block
WriteClose ==
  /\ op = "write"
  /\ InBlock(written)
  /\ written' = Append(written, [t |-> "close"])
  /\ UNCHANGED <<input, op, result, server>>

\* the editor begins the configuration with a directive or a subnet
WriteConf ==
  /\ op = "write"
  /\ written = <<>>
  /\ \E c \in ConfPool : written' = <<c>>
  /\ UNCHANGED <<input, op, result, server>>

\* the editor opens a host block
WriteHostOpen ==
  /\ op = "write"
  /\ written = <<>> \/ IsHostFile(written)
  /\ ~InBlock(written)
  /\ Cardinality(Opens(written)) < MaxBlocks
  /\ \E l \in LabelPool :
       written' = Append(written, [t |-> "host", label |-> l])
  /\ UNCHANGED <<input, op, result, server>>

\* the editor writes one field of the open host block
WriteHostField ==
  /\ op = "write"
  /\ IsHostFile(written)
  /\ InBlock(written)
  /\ FieldCount(written) < MaxFields
  /\ \E f \in HostFieldPool : written' = Append(written, f)
  /\ UNCHANGED <<input, op, result, server>>

\* what a reader finds of the file: all of it, or all but the newline and
\* the last cut characters of the token written last
ReadText(tokens, cut) ==
  IF cut = 0 THEN RenderFile(tokens)
  ELSE SubSeq(RenderFile(tokens), 1, Len(RenderFile(tokens)) - cut - 1)

\* read_to_string, then leases::parse
ReadLeases(cuts) ==
  /\ op = "write"
  /\ ~IsHostFile(written)
  /\ \E cut \in cuts :
       /\ cut > 0 => written # <<>> /\ cut <= Len(TokenCore(written[Len(written)]))
       /\ input' = ReadText(written, cut)
       /\ result' = leases_parse(input')
  /\ op' = "leases::parse"
  /\ UNCHANGED <<written, server>>

\* read_to_string, then hosts::parse
ReadHosts(cuts) ==
  /\ op = "write"
  /\ written = <<>> \/ IsHostFile(written)
  /\ \E cut \in cuts :
       /\ cut > 0 => written # <<>> /\ cut <= Len(TokenCore(written[Len(written)]))
       /\ input' = ReadText(written, cut)
       /\ result' = hosts_parse(input')
  /\ op' = "hosts::parse"
  /\ UNCHANGED <<written, server>>

\* one lease block with fields of every kind, read when it is closed
NextLeaseFields ==
  \/ WriteOpen(1, {<<10, 0, 1, 199>>})
  \/ WriteField(BlockFieldPool)
  \/ WriteClose
  \/ (~InBlock(written) /\ ReadLeases({0}))

SpecLeaseFields == InitFile /\ [][NextLeaseFields]_vars

\* lease files of a header item and several blocks, read when the server
\* has written a whole token
NextLeaseBlocks ==
  \/ WriteHeader
  \/ WriteOpen(MaxBlocks, AddressPool)
  \/ WriteField(HardwarePool)
  \/ WriteClose
  \/ ReadLeases({0})

SpecLeaseBlocks == InitFile /\ [][NextLeaseBlocks]_vars

\* lease files whose blocks hold fields of listed and of other keywords
NextLeaseKeywords ==
  \/ WriteOpen(MaxBlocks, {<<10, 0, 1, 199>>})
  \/ WriteField(KeywordPool)
  \/ WriteClose
  \/ ReadLeases({0})

SpecLeaseKeywords == InitFile /\ [][NextLeaseKeywords]_vars

\* the fields written since the block was opened
OpenBlockFields(tokens) ==
  {i \in 1..Len(tokens) : tokens[i].t = "field" /\ \A o \in Opens(tokens) : o < i}

\* the editor writes a hardware ethernet or a fixed-address field into the
\* open host block; it gives every block an address of its own
WriteAddressField ==
  /\ op = "write"
  /\ IsHostFile(written)
  /\ InBlock(written)
  /\ Cardinality(OpenBlockFields(written)) < MaxBlockFields
  /\ \E f \in { HwToken(<<18, 109, 136, 149, 88, 137>>),
                [t |-> "field", kind |-> "fixed-address",
                 v |-> <<10, 0, 1, 4 + Cardinality(Opens(written))>>] } :
       written' = Append(written, f)
  /\ UNCHANGED <<input, op, result, server>>

\* configurations of host blocks with and without addresses, read when the
\* editor has written a whole token
NextHostBlocks ==
  \/ WriteConf
  \/ WriteHostOpen
  \/ WriteAddressField
  \/ WriteClose
  \/ ReadHosts({0})

SpecHostBlocks == InitFile /\ [][NextHostBlocks]_vars

\* one lease block with timestamps of real and of impossible dates
NextLeaseTimes ==
  \/ WriteOpen(1, {<<10, 0, 1, 199>>})
  \/ WriteField(TimePool)
  \/ WriteClose
  \/ ReadLeases({0})

SpecLeaseTimes == InitFile /\ [][NextLeaseTimes]_vars

\* lease files and host configurations of several blocks, read at any
\* moment
NextFiles ==
  \/ WriteHeader
  \/ WriteOpen(MaxBlocks, AddressPool)
  \/ WriteField(FileFieldPool)
  \/ WriteClose
  \/ ReadLeases(0..MaxCut)
  \/ WriteConf
  \/ WriteHostOpen
  \/ WriteHostField
  \/ ReadHosts(0..MaxCut)

SpecFiles == InitFile /\ [][NextFiles]_vars


(***************************************************************************)
(* Properties of leases::parse and hosts::parse (SpecLeaseFields,          *)
(* SpecFiles).                                                             *)
(***************************************************************************)
\* the close token of the block that token o opens, 0 when it is not closed
BlockEnd(tokens, o) ==
  IF \E c \in Closes(tokens) : c > o
    THEN CHOOSE c \in Closes(tokens) :
           c > o /\ \A d \in Closes(tokens) : d > o => c <= d
    ELSE 0

\* the fields of kind between tokens o and c
FieldsOfKind(tokens, o, c, kind) ==
  {i \in (o + 1)..(c - 1) : tokens[i].t = "field" /\ tokens[i].kind = kind}

\* a lease block that the text read holds whole and that has no hardware
\* ethernet field
BlockWithoutHardware(tokens, n) ==
  \E o \in Opens(tokens) :
    /\ tokens[o].t = "open"
    /\ BlockEnd(tokens, o) # 0
    /\ Intact(tokens, BlockEnd(tokens, o), n)
    /\ FieldsOfKind(tokens, o, BlockEnd(tokens, o), "hardware ethernet") = {}

\* C1: leases::parse returns an error for every lease file in which a lease
\* block has no hardware ethernet field; it neither panics nor returns
\* leases.
C1_MissingHardwareIsError ==
  (op = "leases::parse" /\ BlockWithoutHardware(written, Len(input)))
    => result.k = "Err"

\* C2: on every input text leases::parse and hosts::parse return an Ok
\* sequence or an Err value; neither panics.
C2_OkOrErr ==
  op \in {"leases::parse", "hosts::parse"} => result.k \in {"Ok", "Err"}

LeaseKinds == TimeKinds \cup {"hardware ethernet", "client-hostname"}

\* the value a Lease carries for a field that the server wrote as tok
ValueOfToken(tok) ==
  CASE tok.kind \in TimeKinds ->
         IF tok.v.some
           THEN Some([date |-> tok.v.v.date, time |-> tok.v.v.time])
           ELSE None
    [] tok.kind = "hardware ethernet" -> tok.v
    [] tok.kind = "client-hostname" -> Some(Codes(tok.v))

\* what a Lease carries for a kind of field
ValueOfLease(l, kind) ==
  CASE kind = "starts" -> l.starts
    [] kind = "ends" -> l.ends
    [] kind = "tstp" -> l.tstp
    [] kind = "cltt" -> l.cltt
    [] kind = "hardware ethernet" -> l.hardware_ethernet
    [] kind = "client-hostname" -> l.client_hostname

\* the last token of a set of positions
LastOf(tokens, at) == tokens[CHOOSE i \in at : \A j \in at : j <= i]

\* C10: when a field occurs more than once within one lease block, the
\* Lease carries the value of its last occurrence; a later never makes the
\* timestamp absent.
C10_LastOccurrenceWins ==
  (op = "leases::parse" /\ result.k = "Ok" /\ Len(result.v) = 1) =>
    \A kind \in LeaseKinds :
      LET at == FieldsOfKind(written, 1, Len(written), kind)
      IN Cardinality(at) > 1 =>
           ValueOfLease(result.v[1], kind) = ValueOfToken(LastOf(written, at))

\* a block whose starts is first a date and then never was parsed into a
\* Lease without starts
C10_Witness ==
  /\ op = "leases::parse"
  /\ result.k = "Ok"
  /\ Len(result.v) = 1
  /\ Len(written) = 5
  /\ written[2] = TimeToken("starts", 0, 2022, 11, 20, 21, 27, 34)
  /\ written[3] = NeverToken("starts")
  /\ written[4].kind = "hardware ethernet"
  /\ ~result.v[1].starts.some


\* the members of a set of positions, in increasing order
InOrder(at) ==
  [i \in 1..Cardinality(at) |->
     CHOOSE x \in at : Cardinality({y \in at : y < x}) = i - 1]

\* the lease blocks of a file, in the order they appear
LeaseBlocks(tokens) ==
  InOrder({i \in 1..Len(tokens) : tokens[i].t = "open"})

\* C11: on success leases::parse returns exactly one Lease per lease block,
\* in the order of the blocks: each Lease has the address and the hardware
\* ethernet of its block, blocks of the same address are not merged, and
\* the header items give no record.
C11_OneLeasePerBlock ==
  (op = "leases::parse" /\ result.k = "Ok") =>
    LET blocks == LeaseBlocks(written)
    IN /\ Len(result.v) = Len(blocks)
       /\ \A i \in 1..Len(blocks) :
            LET o == blocks[i]
                hw == FieldsOfKind(written, o, BlockEnd(written, o), "hardware ethernet")
            IN /\ result.v[i].address = written[o].address
               /\ hw # {}
               /\ result.v[i].hardware_ethernet = LastOf(written, hw).v

\* a file of a header item and two blocks of one address was parsed into
\* two Leases
C11_Witness ==
  /\ op = "leases::parse"
  /\ result.k = "Ok"
  /\ written[1].t = "header"
  /\ Len(LeaseBlocks(written)) = 2
  /\ Len(result.v) = 2
  /\ result.v[1].address = result.v[2].address


\* the fields of the file whose keyword lease_field does not list
UnknownFields(tokens) ==
  {i \in 1..Len(tokens) : tokens[i].t = "field" /\ tokens[i].kind = "unknown"}

\* C12: a lease block with a field whose keyword is outside the recognised
\* set makes leases::parse return an error for the whole file; the field is
\* not skipped and no lease of the file is returned.
C12_UnknownKeywordFails ==
  (op = "leases::parse" /\ UnknownFields(written) # {}) => result.k = "Err"

\* a file of a whole block with a hardware ethernet, and of a second whole
\* block with a hardware ethernet and a field of another keyword, was
\* rejected
C12_Witness ==
  /\ op = "leases::parse"
  /\ result.k = "Err"
  /\ Len(written) = 7
  /\ written[2].kind = "hardware ethernet"
  /\ written[3].t = "close"
  /\ written[5].kind = "hardware ethernet"
  /\ written[6].kind = "unknown"
  /\ written[7].t = "close"


\* the host blocks of a configuration that have a fixed-address and a
\* hardware ethernet field, in the order they appear
AddressedBlocks(tokens) ==
  InOrder({o \in 1..Len(tokens) :
             /\ tokens[o].t = "host"
             /\ BlockEnd(tokens, o) # 0
             /\ FieldsOfKind(tokens, o, BlockEnd(tokens, o), "fixed-address") # {}
             /\ FieldsOfKind(tokens, o, BlockEnd(tokens, o), "hardware ethernet") # {}})

\* the first token of a set of positions
FirstOf(tokens, at) == tokens[CHOOSE i \in at : \A j \in at : i <= j]

\* every host block of the configuration is closed and has a field
WholeBlocks(tokens) ==
  /\ ~InBlock(tokens)
  /\ \A c \in Closes(tokens) : tokens[c - 1].t = "field"

\* C13: for a configuration of whole items, each host block with at least
\* one field, hosts::parse succeeds and returns, in file order, exactly one
\* Host for each host block that has a fixed-address and a hardware
\* ethernet field; the other host blocks and the other items give no Host
\* and no error.
C13_HostPerAddressedBlock ==
  (op = "hosts::parse" /\ WholeBlocks(written)) =>
    LET blocks == AddressedBlocks(written)
    IN /\ result.k = "Ok"
       /\ Len(result.v) = Len(blocks)
       /\ \A i \in 1..Len(blocks) :
            LET o == blocks[i]
                c == BlockEnd(written, o)
            IN /\ result.v[i].fixed_address =
                    FirstOf(written, FieldsOfKind(written, o, c, "fixed-address")).v
               /\ result.v[i].hardware_ethernet =
                    FirstOf(written, FieldsOfKind(written, o, c, "hardware ethernet")).v

\* a configuration of two host blocks with both fields was parsed into
\* two Hosts of different addresses
C13_Witness ==
  /\ op = "hosts::parse"
  /\ result.k = "Ok"
  /\ Len(AddressedBlocks(written)) = 2
  /\ Len(result.v) = 2
  /\ result.v[1].fixed_address = <<10, 0, 1, 5>>
  /\ result.v[2].fixed_address = <<10, 0, 1, 6>>

\* a configuration with a host block without fixed-address was parsed
\* into no Host
C13_WitnessDropped ==
  /\ op = "hosts::parse"
  /\ result.k = "Ok"
  /\ result.v = <<>>
  /\ \E o \in Opens(written) :
       FieldsOfKind(written, o, BlockEnd(written, o), "hardware ethernet") # {}


\* C14: a timestamp that a Lease returned by leases::parse carries has the
\* year, month, day, hour, minute and second written in the field it comes
\* from; a field of an impossible date or time of day never gives a Lease
\* with another date or time.
C14_TimestampAsWritten ==
  (op = "leases::parse" /\ result.k = "Ok" /\ Len(result.v) = 1) =>
    \A kind \in TimeKinds :
      LET at == FieldsOfKind(written, 1, Len(written), kind)
      IN (at # {} /\ ValueOfLease(result.v[1], kind).some) =>
           ValueOfLease(result.v[1], kind) = ValueOfToken(LastOf(written, at))

\* a timestamp of a real date and time is carried as written
C14_RealTimestampAsWritten ==
  (op = "leases::parse" /\ result.k = "Ok" /\ Len(result.v) = 1) =>
    \A kind \in TimeKinds :
      LET at == FieldsOfKind(written, 1, Len(written), kind)
          t == LastOf(written, at).v.v
      IN (at # {} /\ t.date.day <= DaysInMonth(t.date.year, t.date.month)
                  /\ t.time.hour < 24) =>
           ValueOfLease(result.v[1], kind) = ValueOfToken(LastOf(written, at))


(***************************************************************************)
(* Properties of val_address and of the octal escape (SpecAddress,         *)
(* SpecEscape).                                                            *)
(***************************************************************************)
\* the number that digits of a radix write
NumberOf(digits, radix) == Accumulate(digits, radix, I32Max, 0)

\* C15: every octet of the address that val_address returns is the decimal
\* value of its digit group; a group beyond 255 never gives another octet.
C15_OctetAsWritten ==
  (op = "val_address" /\ result.k = "Ok") =>
    \A i \in 1..4 : result.v[i] = NumberOf(written[i], 10)

\* an address of groups that are bytes has the octets written
C15_ByteGroupsAsWritten ==
  (op = "val_address" /\ Len(written) = 4
     /\ \A i \in 1..4 : NumberOf(written[i], 10) <= U8Max) =>
    /\ result.k = "Ok"
    /\ \A i \in 1..4 : result.v[i] = NumberOf(written[i], 10)

\* C16: the character that a three-digit octal escape \NNN gives in a
\* string literal has the code NNN read in octal, also from \400 to \777.
C16_EscapeCodeIsOctalValue ==
  op = "val_string" =>
    /\ result.k = "Ok"
    /\ result.v = <<NumberOf(written, 8)>>

\* an escape up to \377 gives the character of its octal value
C16_ByteEscapeIsOctalValue ==
  (op = "val_string" /\ NumberOf(written, 8) <= U8Max) =>
    /\ result.k = "Ok"
    /\ result.v = <<NumberOf(written, 8)>>


(***************************************************************************)
(* Properties of anyspace0 and anyspace1 (SpecSpace).                      *)
(***************************************************************************)
\* the position after the longest run of whitespace and comments that
\* starts at position i; a comment runs from '#' to the next newline or to
\* the end of the text
RECURSIVE AfterSpace(_, _)
AfterSpace(s, i) ==
  IF i > Len(s) THEN i
  ELSE IF s[i] \in {" ", "\t", "\r", "\n"} THEN AfterSpace(s, i + 1)
  ELSE IF s[i] = "#"
    THEN LET ends == {j \in i..Len(s) : s[j] = "\n"}
         IN IF ends = {} THEN Len(s) + 1
            ELSE AfterSpace(s, 1 + CHOOSE j \in ends : \A h \in ends : j <= h)
  ELSE i

\* C18: anyspace0 succeeds on every input, anyspace1 fails exactly when the
\* input starts with neither whitespace nor '#', and both consume the
\* longest leading run of whitespace and comments.
C18_SpaceSkippers ==
  /\ op = "anyspace0" =>
       result.k = "Ok" /\ result.p = AfterSpace(input, 1)
  /\ op = "anyspace1" =>
       IF AfterSpace(input, 1) = 1 THEN result.k = "Error"
       ELSE result.k = "Ok" /\ result.p = AfterSpace(input, 1)

\* anyspace1 consumed a text of a space and of a comment that runs to the
\* end of the text
C18_Witness ==
  /\ op = "anyspace1"
  /\ input = <<" ", "#", "a", ";">>
  /\ result.k = "Ok"
  /\ result.p = 5


(***************************************************************************)
(* db.rs and main.rs: the watcher task (watch_files, check_files,          *)
(* update_leases, update_hosts) and a request of index, which share the    *)
(* Database behind a mutex, while the environment rewrites the two files   *)
(* and the clock advances.                                                 *)
(***************************************************************************)
\* the leases file when the program starts: a lease
FirstLeases ==
  RenderFile(<<[t |-> "open", address |-> <<10, 0, 1, 199>>],
               HwToken(<<18, 109, 136, 149, 88, 137>>), [t |-> "close"]>>)

\* what the leases file may hold: that lease, another lease, a block
\* without hardware ethernet
LeaseTexts ==
  { FirstLeases,
    RenderFile(<<[t |-> "open", address |-> <<10, 0, 1, 199>>],
                 HwToken(<<0, 10, 171, 9, 255, 1>>), [t |-> "close"]>>),
    RenderFile(<<[t |-> "open", address |-> <<10, 0, 1, 199>>],
                 NeverToken("starts"), [t |-> "close"]>>) }

\* the configuration when the program starts: a host
FirstConfig ==
  RenderFile(<<[t |-> "host", label |-> <<"b","_","2">>],
               HwToken(<<18, 109, 136, 149, 88, 137>>),
               [t |-> "field", kind |-> "fixed-address", v |-> <<10, 0, 1, 5>>],
               [t |-> "close"]>>)

\* what the configuration may hold: that host, a directive without its
\* semicolon
ConfigTexts ==
  { FirstConfig,
    <<"d","e","n","y"," ","u","n","k","n","o","w","n","-","c","l","i","e","n","t","s","\n">> }

\* a file: its text, none when the file cannot be read, and the time it
\* was modified
File(text, modified) == [text |-> text, modified |-> modified]

\* who wrote each field of db: 0 is Database::new, n the n-th call of
\* update_leases or update_hosts
NoWriter ==
  [leases |-> 0, last_update_leases |-> 0, hosts |-> 0, last_update_hosts |-> 0]

\* main: the Database is new, the tasks are spawned
InitServer ==
  /\ written = <<>>
  /\ input = <<>>
  /\ op = "serve"
  /\ result = NoResult
  /\ db = Database_new
  /\ lock = "free"
  /\ watcher = [pc |-> "watch_files", fn |-> "none", from |-> "none",
                buf |-> <<>>, new |-> <<>>, outcome |-> "none",
                before |-> Database_new, call |-> 0, checks |-> 0,
                last_update_leases |-> None, last_update_hosts |-> None]
  /\ handler = [pc |-> "idle", leases |-> <<>>, hosts |-> <<>>,
                last_update_leases |-> None, last_update_hosts |-> None,
                by |-> NoWriter]
  /\ fs = [leases |-> File(Some(FirstLeases), 0),
           config |-> File(Some(FirstConfig), 0)]
  /\ now = 0
  /\ shutdown = FALSE
  /\ log = [calls |-> {}, by |-> NoWriter]

\* time passes and the DHCP server rewrites the leases file, or removes it
RewriteLeases ==
  /\ now < MaxTime
  /\ now' = now + 1
  /\ \E t \in {Some(l) : l \in LeaseTexts} \cup {None} :
       fs' = [fs EXCEPT !.leases = File(t, now')]
  /\ UNCHANGED <<written, input, op, result, db, lock, watcher, handler, shutdown, log>>

\* time passes and an editor rewrites the configuration
RewriteConfig ==
  /\ now < MaxTime
  /\ now' = now + 1
  /\ \E c \in ConfigTexts : fs' = [fs EXCEPT !.config = File(Some(c), now')]
  /\ UNCHANGED <<written, input, op, result, db, lock, watcher, handler, shutdown, log>>

\* shutdown_signal: the token is cancelled
Cancel ==
  /\ ~shutdown
  /\ shutdown' = TRUE
  /\ UNCHANGED <<written, input, op, result, db, lock, watcher, handler, fs, now, log>>


composed == <<written, input, op, result>>

\* a lock that is given to whoever asks for it
can_lock_always(holder) == TRUE

\* db.lock().await returns when nobody holds the mutex
can_lock(holder) == holder = "free"

\* unwrap_or_default in the place of ?: an error gives the empty value
\* and the call goes on
unwrap_or_default(r) ==
  [k |-> "continue", v |-> IF r.k = "Ok" THEN r.v ELSE <<>>]

\* the operator ? on a Result: the value of Ok, or the return of the error
question_mark(r) ==
  IF r.k = "Ok" THEN [k |-> "continue", v |-> r.v]
  ELSE [k |-> "return", err |-> r]

\* tokio::fs::read_to_string(file).await
read_to_string(file) ==
  IF file.text.some THEN [k |-> "Ok", v |-> file.text.v]
  ELSE [k |-> "Err", err |-> "io error"]

\* a parser that appends what it reads to the records the database holds
parse_file_onto_db(fn, buf) ==
  LET r == IF fn = "leases" THEN leases_parse(buf) ELSE hosts_parse(buf)
  IN IF r.k = "Ok" THEN [r EXCEPT !.v = db[fn] \o @] ELSE r

\* leases::parse(&buf) in update_leases, hosts::parse(&buf) in update_hosts
parse_file(fn, buf) ==
  IF fn = "leases" THEN leases_parse(buf) ELSE hosts_parse(buf)

\* file_changed
file_changed(last_update, file) ==
  IF ~last_update.some THEN TRUE
  ELSE IF ~file.text.some THEN FALSE
  ELSE file.modified > last_update.v

\* the file that update_leases and update_hosts read, and the timestamp
\* they record
FileOf(fn) == IF fn = "leases" THEN "leases" ELSE "config"
StampOf(fn) == IF fn = "leases" THEN "last_update_leases" ELSE "last_update_hosts"

\* the watcher calls update_leases or update_hosts
Call(w, fn, from) ==
  [w EXCEPT !.pc = "read", !.fn = fn, !.from = from, !.buf = <<>>,
            !.new = <<>>, !.outcome = "none", !.before = db,
            !.call = w.call + 1]

\* a return after which watch_files goes on whatever the outcome was
Return_going_on(w, outcome) ==
  [w EXCEPT !.outcome = outcome, !.buf = <<>>, !.new = <<>>,
            !.pc = IF w.fn = "leases"
                     THEN (IF w.from = "init" THEN "init_hosts" ELSE "changed_hosts")
                   ELSE "select"]

\* the call returns to watch_files, which returns its error and goes on
\* after Ok, or to check_files, which logs its error and goes on
Return(w, outcome) ==
  [w EXCEPT !.outcome = outcome, !.buf = <<>>, !.new = <<>>,
            !.pc = IF w.from = "init"
                     THEN (IF outcome # "Ok" THEN "returned"
                           ELSE IF w.fn = "leases" THEN "init_hosts"
                           ELSE "select")
                   ELSE IF w.fn = "leases" THEN "changed_hosts"
                   ELSE "select"]

\* watch_files: canonicalize the two paths, then update_leases
WatchFiles ==
  /\ watcher.pc = "watch_files"
  /\ watcher' = IF fs.config.text.some /\ fs.leases.text.some
                  THEN Call(watcher, "leases", "init")
                  ELSE [watcher EXCEPT !.pc = "returned", !.outcome = "io"]
  /\ UNCHANGED <<composed, db, lock, handler, fs, now, shutdown, log>>

\* watch_files: update_hosts after update_leases
WatchFilesHosts ==
  /\ watcher.pc = "init_hosts"
  /\ watcher' = Call(watcher, "hosts", "init")
  /\ UNCHANGED <<composed, db, lock, handler, fs, now, shutdown, log>>

\* update_leases, update_hosts: let buf = read_to_string(..).await?
UpdateRead ==
  /\ watcher.pc = "read"
  /\ LET r == read_to_string(fs[FileOf(watcher.fn)])
         q == question_mark(r)
         w == [watcher EXCEPT !.outcome = IF r.k = "Ok" THEN @ ELSE "io"]
     IN watcher' = IF q.k = "continue"
                     THEN [w EXCEPT !.pc = "parse", !.buf = q.v]
                     ELSE Return(w, "io")
  /\ UNCHANGED <<composed, db, lock, handler, fs, now, shutdown, log>>

\* update_leases, update_hosts: let new = parse(&buf)?, or the panic of
\* the parser
UpdateParse ==
  /\ watcher.pc = "parse"
  /\ \E r \in {parse_file(watcher.fn, watcher.buf)} :
       LET q == question_mark(r)
           w == [watcher EXCEPT !.outcome = IF r.k = "Ok" THEN @ ELSE r.k]
       IN /\ watcher' = IF r.k = "Panic" THEN [w EXCEPT !.pc = "panicked"]
                        ELSE IF q.k = "continue"
                          THEN [w EXCEPT !.pc = "lock", !.new = q.v]
                        ELSE Return(w, "Err")
          /\ log' = [log EXCEPT !.calls = @ \cup
                       {[call |-> watcher.call, fn |-> watcher.fn,
                         text |-> watcher.buf, db |-> db, result |-> r]}]
  /\ UNCHANGED <<composed, db, lock, handler, fs, now, shutdown>>

\* update_leases, update_hosts: let mut db = db.lock().await
UpdateLock ==
  /\ watcher.pc = "lock"
  /\ can_lock(lock)
  /\ lock' = "watcher"
  /\ watcher' = [watcher EXCEPT !.pc = "store"]
  /\ UNCHANGED <<composed, db, handler, fs, now, shutdown, log>>

\* db.leases = new_leases, db.hosts = new_hosts
UpdateStore ==
  /\ watcher.pc = "store"
  /\ db' = [db EXCEPT ![watcher.fn] = watcher.new]
  /\ log' = [log EXCEPT !.by[watcher.fn] = watcher.call]
  /\ watcher' = [watcher EXCEPT !.pc = "stamp"]
  /\ UNCHANGED <<composed, lock, handler, fs, now, shutdown>>

\* db.last_update_leases.replace(Utc::now()), the same for the hosts
UpdateStamp ==
  /\ watcher.pc = "stamp"
  /\ db' = [db EXCEPT ![StampOf(watcher.fn)] = Some(now)]
  /\ log' = [log EXCEPT !.by[StampOf(watcher.fn)] = watcher.call]
  /\ watcher' = [watcher EXCEPT !.pc = "unlock"]
  /\ UNCHANGED <<composed, lock, handler, fs, now, shutdown>>

\* the guard is dropped and the call returns Ok
UpdateReturn ==
  /\ watcher.pc = "unlock"
  /\ lock' = "free"
  /\ watcher' = Return(watcher, "Ok")
  /\ UNCHANGED <<composed, db, handler, fs, now, shutdown, log>>


\* watch_files: the interval ticks, check_files is called
SelectTick ==
  /\ watcher.pc = "select"
  /\ watcher.checks < MaxChecks
  /\ watcher' = [watcher EXCEPT !.pc = "check_files", !.checks = @ + 1]
  /\ UNCHANGED <<composed, db, lock, handler, fs, now, shutdown, log>>

\* watch_files: the token is cancelled, the loop breaks, Ok is returned
SelectCancelled ==
  /\ watcher.pc = "select"
  /\ shutdown
  /\ watcher' = [watcher EXCEPT !.pc = "returned", !.outcome = "Ok"]
  /\ UNCHANGED <<composed, db, lock, handler, fs, now, shutdown, log>>

\* check_files: let mut db = db.lock().await
CheckLock ==
  /\ watcher.pc = "check_files"
  /\ can_lock(lock)
  /\ lock' = "watcher"
  /\ watcher' = [watcher EXCEPT !.pc = "last_update_check"]
  /\ UNCHANGED <<composed, db, handler, fs, now, shutdown, log>>

\* check_files: db.last_update_check.replace(Utc::now()), the two
\* timestamps are copied, the guard is dropped
CheckStamp ==
  /\ watcher.pc = "last_update_check"
  /\ db' = [db EXCEPT !.last_update_check = Some(now)]
  /\ lock' = "free"
  /\ watcher' = [watcher EXCEPT !.pc = "changed_leases",
                                !.last_update_leases = db.last_update_leases,
                                !.last_update_hosts = db.last_update_hosts]
  /\ UNCHANGED <<composed, handler, fs, now, shutdown, log>>

\* check_files: if file_changed(last_update_leases, dhcpd_leases).await
ChangedLeases ==
  /\ watcher.pc = "changed_leases"
  /\ watcher' = IF file_changed(watcher.last_update_leases, fs.leases)
                  THEN Call(watcher, "leases", "check")
                  ELSE [watcher EXCEPT !.pc = "changed_hosts"]
  /\ UNCHANGED <<composed, db, lock, handler, fs, now, shutdown, log>>

\* check_files: if file_changed(last_update_hosts, dhcpd_config).await
ChangedHosts ==
  /\ watcher.pc = "changed_hosts"
  /\ watcher' = IF file_changed(watcher.last_update_hosts, fs.config)
                  THEN Call(watcher, "hosts", "check")
                  ELSE [watcher EXCEPT !.pc = "select"]
  /\ UNCHANGED <<composed, db, lock, handler, fs, now, shutdown, log>>

\* index: let db = db.lock().await
IndexLock ==
  /\ handler.pc = "idle"
  /\ can_lock(lock)
  /\ lock' = "handler"
  /\ handler' = [handler EXCEPT !.pc = "devices"]
  /\ UNCHANGED <<composed, db, watcher, fs, now, shutdown, log>>

\* index: the devices of db.leases and of db.hosts
IndexDevices ==
  /\ handler.pc = "devices"
  /\ handler' = [handler EXCEPT !.pc = "last_update",
                                !.leases = db.leases, !.hosts = db.hosts,
                                !.by.leases = log.by.leases,
                                !.by.hosts = log.by.hosts]
  /\ UNCHANGED <<composed, db, lock, watcher, fs, now, shutdown, log>>

\* index: db.last_update_leases and db.last_update_hosts
IndexLastUpdate ==
  /\ handler.pc = "last_update"
  /\ handler' = [handler EXCEPT !.pc = "respond",
                   !.last_update_leases = db.last_update_leases,
                   !.last_update_hosts = db.last_update_hosts,
                   !.by.last_update_leases = log.by.last_update_leases,
                   !.by.last_update_hosts = log.by.last_update_hosts]
  /\ UNCHANGED <<composed, db, lock, watcher, fs, now, shutdown, log>>

\* index: the response is returned, the guard is dropped
IndexRespond ==
  /\ handler.pc = "respond"
  /\ lock' = "free"
  /\ handler' = [pc |-> "idle", leases |-> <<>>, hosts |-> <<>>,
                 last_update_leases |-> None, last_update_hosts |-> None,
                 by |-> NoWriter]
  /\ UNCHANGED <<composed, db, watcher, fs, now, shutdown, log>>

NextServer ==
  \/ RewriteLeases
  \/ RewriteConfig
  \/ Cancel
  \/ WatchFiles
  \/ WatchFilesHosts
  \/ UpdateRead
  \/ UpdateParse
  \/ UpdateLock
  \/ UpdateStore
  \/ UpdateStamp
  \/ UpdateReturn
  \/ SelectTick
  \/ SelectCancelled
  \/ CheckLock
  \/ CheckStamp
  \/ ChangedLeases
  \/ ChangedHosts
  \/ IndexLock
  \/ IndexDevices
  \/ IndexLastUpdate
  \/ IndexRespond

SpecServer == InitServer /\ [][NextServer]_vars

C19_OneUpdateObserved ==
  handler.pc = "respond" =>
    /\ handler.by.leases = handler.by.last_update_leases
    /\ handler.by.hosts = handler.by.last_update_hosts
    /\ handler.leases = db.leases
    /\ handler.last_update_leases = db.last_update_leases
    /\ handler.hosts = db.hosts
    /\ handler.last_update_hosts = db.last_update_hosts

\* a request has read the leases and the timestamp of the first update
\* while a later call of update_leases waits for the lock
C19_Witness ==
  /\ handler.pc = "respond"
  /\ lock = "handler"
  /\ handler.by.leases = 1
  /\ handler.last_update_leases.some
  /\ watcher.pc = "lock"
  /\ watcher.fn = "leases"
  /\ watcher.call > 1

\* the four fields of a Database that update_leases and update_hosts write
Served(d) ==
  <<d.leases, d.hosts, d.last_update_leases, d.last_update_hosts>>

\* C20: when update_leases or update_hosts fails, because the file cannot
\* be read or the parser rejects its text, db.leases, db.hosts,
\* db.last_update_leases and db.last_update_hosts are what they were before
\* the call.
C20_FailedUpdateKeepsDb ==
  watcher.outcome \in {"io", "Err"} => Served(db) = Served(watcher.before)

\* update_leases, called by check_files, has failed on a rejected text
\* while the database holds the lease and the host loaded before
C20_Witness ==
  /\ watcher.outcome = "Err"
  /\ watcher.fn = "leases"
  /\ watcher.from = "check"
  /\ db.leases # <<>>
  /\ db.hosts # <<>>
  /\ db.last_update_leases.some


(***************************************************************************)
(* Vendor documents whose mappings repeat a prefix or carry a prefix       *)
(* without a hex digit (SpecVendorPrefixes).                               *)
(***************************************************************************)
PrefixPool ==
  { Mapping(<<Attr("mac_prefix", <<"1","0",":","2","0",":","3","0">>), Attr("vendor_name", <<" ","A","c","m","e"," ">>)>>),
    Mapping(<<Attr("mac_prefix", <<"1","0",":","2","0",":","3","0">>), Attr("vendor_name", <<"G","a","m","m","a">>)>>),
    Mapping(<<Attr("vendor_name", <<"B","e","t","a">>), Attr("mac_prefix", <<"1","0",":","2","0",":","3","0",":","4","0",":","5","0">>)>>),
    Mapping(<<Attr("mac_prefix", <<>>), Attr("vendor_name", <<"N","o","b","o","d","y">>)>>),
    Mapping(<<Attr("mac_prefix", <<":",":">>), Attr("vendor_name", <<"C","o","l","o","n","s">>)>>),
    Mapping(<<Attr("mac_prefix", <<"1">>), Attr("vendor_name", <<"O","n","e">>)>>) }

\* the environment appends one more of these elements to the document
VmWritePrefix ==
  /\ op = "compose"
  /\ Len(written) < MaxElements
  /\ \E e \in PrefixPool : written' = Append(written, e)
  /\ UNCHANGED <<input, op, result, server>>

NextVendorPrefixes == VmWritePrefix \/ VmParse \/ VmLookup

SpecVendorPrefixes == InitVendor /\ [][NextVendorPrefixes]_vars

\* the element at j is the last of the document that gives its prefix a
\* name, and an earlier element gives the same prefix another name
LastOfRepeated(doc, j) ==
  /\ IsComplete(doc[j])
  /\ \E i \in 1..(j - 1) :
       /\ IsComplete(doc[i])
       /\ KeyOf(doc[i]) = KeyOf(doc[j])
       /\ Trim(AttrValue(doc[i], "vendor_name")) # Trim(AttrValue(doc[j], "vendor_name"))
  /\ \A h \in (j + 1)..Len(doc) :
       IsComplete(doc[h]) => KeyOf(doc[h]) # KeyOf(doc[j])

\* C21: when two VendorMapping elements of the document carry the same
\* mac_prefix and different names, the table holds for that prefix the name
\* of the element that comes later, and get_vendor_name returns it for a
\* MAC whose longest inserted prefix it is.
C21_LaterNameWins ==
  (op \in {"VendorMapping::parse", "get_vendor_name"} /\ result.ok) =>
    \A j \in 1..Len(input) :
      LastOfRepeated(input, j) =>
        LET key == KeyOf(input[j])
            name == Trim(AttrValue(input[j], "vendor_name"))
        IN /\ key \in DOMAIN result.v
           /\ result.v[key] = name
           /\ (/\ op = "get_vendor_name"
               /\ StartsWith(MacPrefix_from_mac(result.mac), key)
               /\ \A k \in DOMAIN result.v :
                    StartsWith(MacPrefix_from_mac(result.mac), k) => Len(k) <= Len(key))
                => result.name = Some(name)

\* the document gives 10:20:30 the name Acme and then the name Gamma, and a
\* MAC that starts with 10:20:30 was looked up
C21_Witness ==
  /\ op = "get_vendor_name"
  /\ Len(input) = 2
  /\ LastOfRepeated(input, 2)
  /\ AttrValue(input[1], "vendor_name") = <<" ","A","c","m","e"," ">>
  /\ DOMAIN result.v = {<<1, 0, 2, 0, 3, 0>>}
  /\ result.mac = <<16, 32, 48, 170, 187, 204>>
  /\ result.name = Some(<<"G","a","m","m","a">>)

\* C22: every key that VendorMapping::parse inserts has between 1 and 12
\* nibbles.
C22_KeysHaveNibbles ==
  (op = "VendorMapping::parse" /\ result.ok) =>
    \A k \in DOMAIN result.v : Len(k) >= 1 /\ Len(k) <= MaxNibbles


(***************************************************************************)
(* Lease blocks whose client-hostname is written with and without          *)
(* characters between the quotes (SpecLeaseNames).                         *)
(***************************************************************************)
NamePool ==
  { HostnameToken(<<>>),
    HostnameToken(<<"a","l","p","h","a">>),
    HwToken(<<18, 109, 136, 149, 88, 137>>) }

NextLeaseNames ==
  \/ WriteOpen(1, {<<10, 0, 1, 199>>})
  \/ WriteField(NamePool)
  \/ WriteClose
  \/ ReadLeases({0})

SpecLeaseNames == InitFile /\ [][NextLeaseNames]_vars

\* the file is one closed lease block that has a hardware ethernet field
OneWholeLease(tokens) ==
  /\ tokens # <<>>
  /\ ~InBlock(tokens)
  /\ FieldsOfKind(tokens, 1, Len(tokens), "hardware ethernet") # {}

\* the client-hostname fields of the file that have nothing between their
\* quotes
EmptyNames(tokens) ==
  {i \in 1..Len(tokens) :
     tokens[i].t = "field" /\ tokens[i].kind = "client-hostname" /\ tokens[i].v = <<>>}

\* C23: the string literal "" is accepted by val_string and decodes to the
\* empty string, and a lease block with a field client-hostname ""; does
\* not make leases::parse fail.
C23_EmptyStringAccepted ==
  (op = "leases::parse" /\ OneWholeLease(written) /\ EmptyNames(written) # {}) =>
    /\ parse(val_string, <<"\"", "\"">>, 1).k = "Ok"
    /\ parse(val_string, <<"\"", "\"">>, 1).v = <<>>
    /\ result.k = "Ok"

\* a whole lease block is accepted when each of its client-hostname fields
\* has a character between its quotes
C23_NamedLeaseAccepted ==
  (op = "leases::parse" /\ OneWholeLease(written) /\ EmptyNames(written) = {}) =>
    result.k = "Ok"


(***************************************************************************)
(* Configurations of whitespace and comments (SpecBlankConf).              *)
(***************************************************************************)
\* read_to_string, then hosts::parse, on the text composed
BlankReadHosts ==
  /\ op = "compose"
  /\ input' = written
  /\ result' = hosts_parse(input')
  /\ op' = "hosts::parse"
  /\ UNCHANGED <<written, server>>

NextBlankConf == SpaceWriteChar \/ BlankReadHosts

SpecBlankConf == InitMac /\ [][NextBlankConf]_vars

\* the text has a character, and all of it is whitespace and comments
IsBlank(s) == s # <<>> /\ AfterSpace(s, 1) = Len(s) + 1

\* C24: hosts::parse returns the empty sequence of hosts, and no error, for
\* a text that consists only of whitespace and comments, as it does for the
\* empty text.
C24_BlankConfIsEmpty ==
  (op = "hosts::parse" /\ IsBlank(input)) =>
    /\ result = [k |-> "Ok", v |-> <<>>]
    /\ result = hosts_parse(<<>>)

\* hosts::parse returns the empty sequence of hosts for the empty text
C24_EmptyConfIsEmpty ==
  (op = "hosts::parse" /\ input = <<>>) => result = [k |-> "Ok", v |-> <<>>]


(***************************************************************************)
(* The watcher alone, with a leases file that is read while the DHCP       *)
(* server is still writing it (SpecWatcher).                               *)
(***************************************************************************)
\* the leases file cut within the hardware ethernet of its lease
CutLeases == SubSeq(FirstLeases, 1, Len(FirstLeases) - 5)

\* time passes and the DHCP server has written the leases file in part
TruncateLeases ==
  /\ now < MaxTime
  /\ now' = now + 1
  /\ fs' = [fs EXCEPT !.leases = File(Some(CutLeases), now')]
  /\ UNCHANGED <<written, input, op, result, db, lock, watcher, handler, shutdown, log>>

NextWatcher ==
  \/ RewriteLeases
  \/ TruncateLeases
  \/ RewriteConfig
  \/ Cancel
  \/ WatchFiles
  \/ WatchFilesHosts
  \/ UpdateRead
  \/ UpdateParse
  \/ UpdateLock
  \/ UpdateStore
  \/ UpdateStamp
  \/ UpdateReturn
  \/ SelectTick
  \/ SelectCancelled
  \/ CheckLock
  \/ CheckStamp
  \/ ChangedLeases
  \/ ChangedHosts

SpecWatcher == InitServer /\ [][NextWatcher]_vars

\* C25: after a reload that check_files attempted has failed, on a file
\* that cannot be read or on a text the parser does not accept, the watcher
\* task is still running.
C25_WatcherSurvivesFailedReload ==
  (watcher.from = "check" /\ watcher.outcome \notin {"none", "Ok"}) =>
    watcher.pc # "panicked"

\* after a reload that failed with an error of read_to_string or of the
\* parser, check_files goes on and the watcher returns to its loop
C25_ErrorKeepsWatcher ==
  (watcher.from = "check" /\ watcher.outcome \in {"io", "Err"}) =>
    watcher.pc \in {"changed_hosts", "select", "check_files"}


\* C26: no rewrite of the leases file is missed by the test
\* modified > last_update: when the watcher waits in its loop and the test
\* reports the file unchanged, db.leases is the parse of the text the file
\* holds, also when the file was rewritten between the read of
\* update_leases and its recording of last_update_leases.
C26_NoModificationMissed ==
  (/\ watcher.pc = "select"
   /\ fs.leases.text.some
   /\ db.last_update_leases.some
   /\ ~file_changed(db.last_update_leases, fs.leases)
   /\ leases_parse(fs.leases.text.v).k = "Ok") =>
    db.leases = leases_parse(fs.leases.text.v).v


\* C27: once the shutdown token is cancelled the watcher leaves its loop
\* without starting another check: from the select of the loop it does not
\* go into check_files.
C27_NoCheckAfterCancel ==
  [][(shutdown /\ watcher.pc = "select") => watcher'.pc # "check_files"]_vars

\* once the token is cancelled and the watcher has left its loop,
\* watch_files has returned Ok and holds no lock
C27_LoopLeftReturnsOk ==
  (shutdown /\ watcher.pc = "returned" /\ watcher.from # "init" /\ watcher.fn # "none") =>
    watcher.outcome = "Ok" /\ lock # "watcher"


(***************************************************************************)
(* The server whose first update_leases fails (SpecServer).                *)
(***************************************************************************)
\* C30: when the update_leases that watch_files calls first fails,
\* watch_files returns without calling update_hosts and without entering
\* its loop; db.leases and db.hosts are empty and the three last_update
\* fields are None from then on, the watcher holds no lock that a request
\* waits for, and no step of the watcher cancels the shutdown token.
C30_FirstUpdateFailed ==
  /\ [](( /\ watcher.from = "init"
          /\ watcher.fn = "leases"
          /\ watcher.outcome \in {"io", "Err"}) =>
         /\ watcher.pc = "returned"
         /\ watcher.call = 1
         /\ watcher.checks = 0
         /\ db = Database_new
         /\ lock # "watcher")
  /\ [][shutdown' # shutdown => watcher' = watcher]_vars

\* the first update_leases was given a text it rejects, watch_files has
\* returned, and a request of index has read the empty database while the
\* token is not cancelled
C30_Witness ==
  /\ watcher.pc = "returned"
  /\ watcher.from = "init"
  /\ watcher.fn = "leases"
  /\ watcher.outcome = "Err"
  /\ handler.pc = "respond"
  /\ handler.leases = <<>>
  /\ handler.hosts = <<>>
  /\ ~handler.last_update_leases.some
  /\ ~shutdown


(***************************************************************************)
(* A host block that repeats its fields (SpecHostRepeats).                 *)
(***************************************************************************)
OptionToken(name, value) ==
  [t |-> "field", kind |-> "option", name |-> name, v |-> value]

\* each field of a Host with two values
RepeatPool ==
  { HwToken(<<18, 109, 136, 149, 88, 137>>),
    HwToken(<<0, 10, 171, 9, 255, 1>>),
    [t |-> "field", kind |-> "fixed-address", v |-> <<10, 0, 1, 5>>],
    [t |-> "field", kind |-> "fixed-address", v |-> <<10, 0, 1, 6>>],
    OptionToken(<<"h","o","s","t","-","n","a","m","e">>, <<"a","l","p","h","a">>),
    OptionToken(<<"h","o","s","t","-","n","a","m","e">>, <<"b","e","t","a">>) }

\* the editor opens the host block of the configuration
WriteOneHostOpen ==
  /\ op = "write"
  /\ written = <<>>
  /\ written' = <<[t |-> "host", label |-> <<"b","_","2">>]>>
  /\ UNCHANGED <<input, op, result, server>>

\* the editor writes one more field into the block
WriteRepeatedField ==
  /\ op = "write"
  /\ InBlock(written)
  /\ FieldCount(written) < MaxRepeated
  /\ \E f \in RepeatPool : written' = Append(written, f)
  /\ UNCHANGED <<input, op, result, server>>

NextHostRepeats ==
  \/ WriteOneHostOpen
  \/ WriteRepeatedField
  \/ WriteClose
  \/ ReadHosts({0})

SpecHostRepeats == InitFile /\ [][NextHostRepeats]_vars

\* the option host-name fields of the block
HostNameFields(tokens) ==
  {i \in FieldsOfKind(tokens, 1, Len(tokens), "option") :
     tokens[i].name = <<"h","o","s","t","-","n","a","m","e">>}

\* C29: when a host block repeats fixed-address, hardware ethernet or
\* option host-name, the Host carries the value of the first occurrence of
\* each.
C29_FirstOccurrenceWins ==
  (op = "hosts::parse" /\ WholeBlocks(written) /\ AddressedBlocks(written) # <<>>) =>
    /\ result.k = "Ok"
    /\ Len(result.v) = 1
    /\ result.v[1].fixed_address =
         FirstOf(written, FieldsOfKind(written, 1, Len(written), "fixed-address")).v
    /\ result.v[1].hardware_ethernet =
         FirstOf(written, FieldsOfKind(written, 1, Len(written), "hardware ethernet")).v
    /\ result.v[1].hostname =
         IF HostNameFields(written) = {} THEN None
         ELSE Some(Codes(FirstOf(written, HostNameFields(written)).v))

\* a block that gives two addresses was parsed into the Host of the first
C29_Witness ==
  /\ op = "hosts::parse"
  /\ result.k = "Ok"
  /\ Len(result.v) = 1
  /\ Cardinality(FieldsOfKind(written, 1, Len(written), "fixed-address")) = 2
  /\ result.v[1].fixed_address = <<10, 0, 1, 6>>
  /\ written[3].v = <<10, 0, 1, 5>>

\* a block that gives two host names was parsed into the Host of the first
C29_WitnessNames ==
  /\ op = "hosts::parse"
  /\ result.k = "Ok"
  /\ Len(result.v) = 1
  /\ Cardinality(HostNameFields(written)) = 2
  /\ result.v[1].hostname = Some(Codes(<<"b","e","t","a">>))


(***************************************************************************)
(* A host block and a lease block whose closing brace follows the last     *)
(* field with and without whitespace or a comment (SpecBlockEnds).         *)
(***************************************************************************)
HostOpening == <<"h","o","s","t"," ","b","_","2"," ","{">>
LeaseOpening == <<"l","e","a","s","e"," ","1","0",".","0",".","1",".","1","9","9"," ","{">>
HardwareField == <<"h","a","r","d","w","a","r","e"," ","e","t","h","e","r","n","e","t"," ","1","2",":","6","d",":","8","8",":","9","5",":","5","8",":","8","9",";">>
Closing == <<"}">>

\* whitespace and a comment, which anyspace0 and anyspace1 skip
SeparatorPool == { <<" ">>, <<"\n">>, <<"#", "c", "\n">> }

\* the editor begins a block
PieceOpen ==
  /\ op = "compose"
  /\ written = <<>>
  /\ \E o \in {HostOpening, LeaseOpening} : written' = <<o>>
  /\ UNCHANGED <<input, op, result, server>>

\* the editor writes a field, a separator or the closing brace
PieceWrite ==
  /\ op = "compose"
  /\ written # <<>>
  /\ Len(written) <= MaxPieces
  /\ written[Len(written)] # Closing
  /\ \E p \in SeparatorPool \cup {HardwareField, Closing} :
       written' = Append(written, p)
  /\ UNCHANGED <<input, op, result, server>>

\* read_to_string, then hosts::parse, on the text of a host block
PieceReadHosts ==
  /\ op = "compose"
  /\ written # <<>>
  /\ written[1] = HostOpening
  /\ input' = Concat(written)
  /\ result' = hosts_parse(input')
  /\ op' = "hosts::parse"
  /\ UNCHANGED <<written, server>>

\* read_to_string, then leases::parse, on the text of a lease block
PieceReadLeases ==
  /\ op = "compose"
  /\ written # <<>>
  /\ written[1] = LeaseOpening
  /\ input' = Concat(written)
  /\ result' = leases_parse(input')
  /\ op' = "leases::parse"
  /\ UNCHANGED <<written, server>>

NextBlockEnds == PieceOpen \/ PieceWrite \/ PieceReadHosts \/ PieceReadLeases

SpecBlockEnds == InitMac /\ [][NextBlockEnds]_vars

\* the block is closed and has a field
ClosedBlock(pieces) ==
  /\ Len(pieces) >= 3
  /\ pieces[Len(pieces)] = Closing
  /\ \E i \in 2..(Len(pieces) - 1) : pieces[i] = HardwareField

\* the closing brace follows the semicolon of a field at once
ClosedAtOnce(pieces) == pieces[Len(pieces) - 1] = HardwareField

\* C28: a host block whose closing brace follows the semicolon of its last
\* field at once makes hosts::parse fail, one with whitespace or a comment
\* between them is accepted; a lease block is accepted either way.
C28_HostBlockNeedsSpace ==
  ClosedBlock(written) =>
    /\ op = "hosts::parse" =>
         IF ClosedAtOnce(written) THEN result.k = "Err" ELSE result.k = "Ok"
    /\ op = "leases::parse" => result.k = "Ok"

\* hosts::parse has rejected a host block that ends in ;}
C28_Witness ==
  /\ op = "hosts::parse"
  /\ written = <<HostOpening, <<"\n">>, HardwareField, Closing>>
  /\ result.k = "Err"

\* leases::parse has accepted a lease block that ends in ;}
C28_WitnessLease ==
  /\ op = "leases::parse"
  /\ written = <<LeaseOpening, <<"\n">>, HardwareField, Closing>>
  /\ result.k = "Ok"

=============================================================================
